---- MODULE Spec2Model ----
(***************************************************************************)
(* The sandbox execution subsystem of local-suna: the provider factory     *)
(* (core/sandbox/factory.py), the Docker-backed adapter                    *)
(* (core/sandbox/adapters/docker_sandbox.py) and the compatibility shim    *)
(* (core/sandbox/compat.py).                                               *)
(*                                                                         *)
(* The callers are asyncio tasks: a handler runs without interruption      *)
(* between two awaits that suspend it, so each action below is the code    *)
(* between two such awaits.  Every engine call is one atomic step of the   *)
(* engine.  The module holds several specifications over one set of        *)
(* variables; each leaves the variables of the other parts untouched.      *)
(***************************************************************************)
EXTENDS Integers, Sequences, FiniteSets, TLC

NumTasks == 2
Tasks == 1..NumTasks

(***************************************************************************)
(* Part 1: SandboxFactory (factory.py)                                     *)
(***************************************************************************)
VARIABLES
  envv,        \* the process environment read by the factory
  engineUp,    \* whether the Docker daemon answers ping() right now
  instance,    \* SandboxFactory._instance: 0 is None, else an index of factories
  factories,   \* every SandboxFactory constructed: [provider, adapter]
  adapters,    \* every DockerSandboxAdapter constructed: [client]
  fret,        \* per task, the outcome of its last get_sandbox_adapter call
  calls        \* number of get_sandbox_adapter calls made so far

factoryVars == <<envv, engineUp, instance, factories, adapters, fret, calls>>

MaxCalls == 3

\* Values of SANDBOX_PROVIDER and CLOUD_PROVIDER the model draws from.
ProviderEnvValues == {"", "docker", "Docker", "e2b", "daytona", "other"}
CloudEnvValues == {"", "aliyun", "tencent", "local", "supabase", "other"}
\* An API key variable: "" stands for unset or empty (both falsy in Python).
KeyEnvValues == {"", "key"}

\* str.lower() on the values above.
Lower(s) == IF s = "Docker" THEN "docker" ELSE s

Truthy(s) == s # ""

detect_provider_keys_first(e) ==
  IF Truthy(e.E2B_API_KEY) THEN "e2b"
  ELSE IF Truthy(e.DAYTONA_API_KEY) THEN "daytona"
  ELSE IF Lower(e.SANDBOX_PROVIDER) \in {"docker", "e2b", "daytona"}
       THEN Lower(e.SANDBOX_PROVIDER)
  ELSE "docker"

detect_provider(e) ==
  LET provider_env == Lower(e.SANDBOX_PROVIDER)
      cloud_provider == Lower(e.CLOUD_PROVIDER)
  IN  IF provider_env = "docker" THEN "docker"
      ELSE IF provider_env = "e2b" THEN "e2b"
      ELSE IF provider_env = "daytona" THEN "daytona"
      ELSE IF cloud_provider \in {"aliyun", "tencent", "local"} THEN "docker"
      ELSE IF cloud_provider = "supabase"
           THEN (IF Truthy(e.E2B_API_KEY) THEN "e2b" ELSE "docker")
      ELSE IF Truthy(e.E2B_API_KEY) THEN "e2b"
      ELSE IF Truthy(e.DAYTONA_API_KEY) THEN "daytona"
      ELSE "docker"

\* DockerSandboxAdapter.__init__: the client is kept only when ping() answered.
DockerSandboxAdapter_init(up) == [client |-> up]

is_configured(a) == a.client

AdapterCachedNever(f) == FALSE

\* get_adapter's first test: self._adapter is not None.
AdapterCached(f) == f.adapter # 0

\* get_instance's test: cls._instance is None.
InstanceMissing == instance = 0

FactoryNoResult == [kind |-> "none", adapter |-> 0, error |-> "", message |-> <<>>]

\* _create_e2b_adapter and _create_daytona_adapter: the exception each raises,
\* its message as the sequence of its sentences.
create_e2b_adapter ==
  [error |-> "NotImplementedError", message |-> <<"E2B adapter not yet implemented">>]

create_daytona_adapter ==
  [error |-> "NotImplementedError",
   message |-> <<"Daytona adapter not implemented.",
                 "Please migrate to Docker or E2B.",
                 "Set SANDBOX_PROVIDER=docker to use Docker sandboxes.">>]

\* The RuntimeError of get_adapter's validation.
NotConfigured ==
  [error |-> "RuntimeError",
   message |-> <<"Sandbox provider is not properly configured.",
                 "Please check your environment variables and service availability.">>]

\* get_adapter on factory record f: the factory record afterwards, the adapters
\* constructed so far afterwards, and the outcome handed to the caller.
get_adapter(f, ads) ==
  IF AdapterCached(f)
  THEN [fac |-> f, ads |-> ads,
        out |-> [kind |-> "returned", adapter |-> f.adapter, error |-> "",
                 message |-> <<>>]]
  ELSE IF f.provider = "docker"
  THEN LET a == DockerSandboxAdapter_init(engineUp)
           ads2 == Append(ads, a)
           f2 == [f EXCEPT !.adapter = Len(ads2)]
       IN  IF ~is_configured(a)
           THEN [fac |-> f2, ads |-> ads2,
                 out |-> [kind |-> "raised", adapter |-> 0,
                          error |-> NotConfigured.error,
                          message |-> NotConfigured.message]]
           ELSE [fac |-> f2, ads |-> ads2,
                 out |-> [kind |-> "returned", adapter |-> f2.adapter, error |-> "",
                          message |-> <<>>]]
  ELSE LET e == IF f.provider = "e2b" THEN create_e2b_adapter ELSE create_daytona_adapter
       IN  [fac |-> f, ads |-> ads,
            out |-> [kind |-> "raised", adapter |-> 0, error |-> e.error,
                     message |-> e.message]]

\* get_sandbox_adapter: get_instance() and get_adapter() hold no await that
\* suspends, so one call is one step of the calling task.
get_sandbox_adapter(t) ==
  /\ calls < MaxCalls
  /\ LET construct == InstanceMissing
         facs == IF construct
                 THEN Append(factories,
                             [provider |-> detect_provider(envv), adapter |-> 0])
                 ELSE factories
         inst == IF construct THEN Len(facs) ELSE instance
         r == get_adapter(facs[inst], adapters)
     IN  /\ instance' = inst
         /\ factories' = [facs EXCEPT ![inst] = r.fac]
         /\ adapters' = r.ads
         /\ fret' = [fret EXCEPT ![t] = r.out]
  /\ calls' = calls + 1
  /\ UNCHANGED <<envv, engineUp>>

\* The daemon goes down or comes back.
EngineToggle ==
  /\ engineUp' = ~engineUp
  /\ UNCHANGED <<envv, instance, factories, adapters, fret, calls>>

FactoryInit ==
  /\ envv \in [SANDBOX_PROVIDER : ProviderEnvValues, CLOUD_PROVIDER : CloudEnvValues,
               E2B_API_KEY : KeyEnvValues, DAYTONA_API_KEY : KeyEnvValues]
  /\ engineUp \in BOOLEAN
  /\ instance = 0
  /\ factories = <<>>
  /\ adapters = <<>>
  /\ fret = [t \in Tasks |-> FactoryNoResult]
  /\ calls = 0

\* The factory part at rest, for the specifications that do not use it.
FactoryIdle ==
  /\ envv = [SANDBOX_PROVIDER |-> "", CLOUD_PROVIDER |-> "",
             E2B_API_KEY |-> "", DAYTONA_API_KEY |-> ""]
  /\ engineUp = TRUE
  /\ instance = 0
  /\ factories = <<>>
  /\ adapters = <<>>
  /\ fret = [t \in Tasks |-> FactoryNoResult]
  /\ calls = 0


(***************************************************************************)
(* Part 2: DockerSandboxAdapter, the container lifecycle                   *)
(* (docker_sandbox.py, create/get/start/stop/delete/health_check)          *)
(***************************************************************************)
VARIABLES
  client,      \* whether the adapter's self.client is set (not None)
  status,      \* the engine: container id -> Docker status, "absent" when none
  nextId,      \* the id the engine gives the next container
  known,       \* the sandbox ids create_sandbox has returned to a caller
  pc,          \* per task, where its current handler is suspended ("idle": none)
  cur,         \* per task, the current handler's locals: [op, sid, snap, issued]
  ret,         \* per task, the outcome of its last call (none while a call is in progress)
  engineCalled, \* whether the adapter has invoked any engine primitive so far
  lastOp,      \* per container, the last lifecycle call that returned (history)
  overlapped   \* per task, whether its lifecycle call overlapped another on the same id

adapterVars == <<client, status, nextId, known, pc, cur, ret, engineCalled, lastOp, overlapped>>

MaxSandboxes == 1
\* An id the engine never assigns: what a caller passes for an unknown sandbox.
BogusId == MaxSandboxes + 1
Ids == 1..BogusId

\* SandboxState (adapter.py)
SandboxStates == {"CREATING", "STARTED", "STOPPED", "ARCHIVING", "ARCHIVED", "ERROR"}

\* The status strings of the Docker engine.
DockerStatuses == {"created", "restarting", "running", "removing", "paused", "exited", "dead"}

MapStatusArchived(st) ==
  IF st = "running" THEN "STARTED"
  ELSE IF st \in {"created", "restarting"} THEN "CREATING"
  ELSE IF st = "paused" THEN "STOPPED"
  ELSE IF st = "exited" THEN "ARCHIVED"
  ELSE "ERROR"

MapStatusExitedError(st) ==
  IF st = "running" THEN "STARTED"
  ELSE IF st \in {"created", "restarting"} THEN "CREATING"
  ELSE IF st = "paused" THEN "STOPPED"
  ELSE "ERROR"

\* get_sandbox's mapping of container.status.lower() to a SandboxState.
MapStatus(st) ==
  IF st = "running" THEN "STARTED"
  ELSE IF st \in {"created", "restarting"} THEN "CREATING"
  ELSE IF st \in {"paused", "exited"} THEN "STOPPED"
  ELSE "ERROR"

NotInitializedIgnored == FALSE

\* `if not self.client` at the head of the adapter's operations.
NotInitialized == ~client

NotInitError == "Docker client not initialized"

NoCur == [op |-> "none", sid |-> BogusId, snap |-> "absent", issued |-> FALSE]
\* What a start_sandbox or stop_sandbox call did (history): the status its lookup
\* saw, "absent" when no lookup found the container, and whether it then called
\* container.start or container.stop.
NoDid == [snap |-> "absent", issued |-> FALSE]
Did(c) == [snap |-> c.snap, issued |-> c.issued]

NoRet ==
  [op |-> "none", kind |-> "none", sid |-> BogusId, val |-> "", error |-> "",
   gone |-> "no", aux |-> "", did |-> NoDid]

Returned(op, sid, val) ==
  [op |-> op, kind |-> "returned", sid |-> sid, val |-> val, error |-> "",
   gone |-> "no", aux |-> "", did |-> NoDid]
Raised(op, sid, err) ==
  [op |-> op, kind |-> "raised", sid |-> sid, val |-> "", error |-> err,
   gone |-> "no", aux |-> "", did |-> NoDid]

\* The ids a caller can pass: those create_sandbox returned, and an unknown one.
SidArgs == known \cup {BogusId}

Mutators == {"start_sandbox", "stop_sandbox", "delete_sandbox"}

\* Another task's lifecycle call on container s is in flight.
InFlight(s, t) == \E u \in Tasks \ {t} : pc[u] # "idle" /\ cur[u].op \in Mutators /\ cur[u].sid = s

\* History: a lifecycle call of t on s begins.
Begin(t, s) ==
  overlapped' = [u \in Tasks |->
                   IF u = t THEN InFlight(s, t)
                   ELSE IF pc[u] # "idle" /\ cur[u].op \in Mutators /\ cur[u].sid = s THEN TRUE
                   ELSE overlapped[u]]

\* History: a lifecycle call of t on s returns to its caller.
NoteReturn(t, s, op, ov) ==
  lastOp' = [lastOp EXCEPT ![s] = IF ov THEN "none" ELSE op]

\* The adapter invokes the named primitive of the engine's client.
Log(name) == engineCalled' = TRUE

Finish(t, r) ==
  /\ pc' = [pc EXCEPT ![t] = "idle"]
  /\ cur' = [cur EXCEPT ![t] = NoCur]
  /\ ret' = [ret EXCEPT ![t] = r]

Suspend(t, where, c) ==
  /\ pc' = [pc EXCEPT ![t] = where]
  /\ cur' = [cur EXCEPT ![t] = c]
  /\ ret' = [ret EXCEPT ![t] = NoRet]

\* ---- the labels of a container and the metadata kept in them ----
VARIABLES
  labels,     \* per container, its labels in the order the engine lists them
  given,      \* per container, the metadata its create_sandbox call was given (history)
  restarted   \* whether the managing process was restarted since the start

metaVars == <<labels, given, restarted>>

\* A key is the sequence of its pieces: P stands for an occurrence of the text
\* "kortix.meta." in it, "a" for a character that is part of no such occurrence.
P == "kortix.meta."
MaxKeyLen == 1
MetaKeys == UNION {[1..n -> {P, "a"}] : n \in 0..MaxKeyLen}
MetaValues == {"1", "2"}

\* metadata=None or {}.
NoMetadata == [k \in {} |-> ""]

\* The metadata maps a caller passes: string keys, string values, up to two entries.
MetadataArgs ==
  UNION {[K -> MetaValues] : K \in {S \in SUBSET MetaKeys : Cardinality(S) <= 2}}

\* str(value) of a string.
Str(value) == value

\* f"kortix.meta.{key}"
LabelKey(key) == <<P>> \o key

\* The two labels every sandbox container gets. The value of kortix.created_at
\* is the text of the clock reading; no operation reads it back.
FixedLabels ==
  << [key |-> <<"kortix.sandbox">>, value |-> "true"],
     [key |-> <<"kortix.created_at">>, value |-> "time"] >>

\* container_config["labels"] after the loop over metadata.items().
MetaLabels(metadata) ==
  {[key |-> LabelKey(k), value |-> Str(metadata[k])] : k \in DOMAIN metadata}

\* The orders in which the engine can list a set of labels (container.labels).
Listings(S) ==
  {q \in [1..Cardinality(S) -> S] : \A i, j \in 1..Cardinality(S) : i # j => q[i] # q[j]}

\* key.startswith("kortix.meta.")
StartsWithPrefix(key) == key # <<>> /\ key[1] = P

\* key.replace("kortix.meta.", ""): every occurrence goes.
StripPrefix(key) == SelectSeq(key, LAMBDA x : x # P)

\* get_sandbox's loop over labels.items(): a later label overwrites an earlier
\* one with the same stripped key.
RECURSIVE DecodeLabels(_)
DecodeLabels(ls) ==
  IF ls = <<>> THEN NoMetadata
  ELSE LET e == ls[Len(ls)]
           rest == DecodeLabels(SubSeq(ls, 1, Len(ls) - 1))
       IN  IF StartsWithPrefix(e.key)
           THEN [k \in DOMAIN rest \cup {StripPrefix(e.key)} |->
                   IF k = StripPrefix(e.key) THEN e.value ELSE rest[k]]
           ELSE rest

\* No container carries caller metadata: the existing ones have the fixed labels.
MetaIdle ==
  /\ labels = [s \in Ids |-> IF status[s] = "absent" THEN <<>> ELSE FixedLabels]
  /\ given = [s \in Ids |-> NoMetadata]
  /\ restarted = FALSE

\* ---- create_sandbox ----
\* Up to the end of containers.run(**container_config).
create_sandbox_run(t, metadata) ==
  /\ pc[t] = "idle"
  /\ IF NotInitialized
     THEN /\ Finish(t, Raised("create_sandbox", BogusId, NotInitError))
          /\ UNCHANGED <<status, nextId, engineCalled, labels, given>>
     ELSE \E imageFound \in BOOLEAN :
            IF ~imageFound
            THEN /\ Finish(t, Raised("create_sandbox", BogusId, "image not found"))
                 /\ Log("containers.run")
                 /\ UNCHANGED <<status, nextId, labels, given>>
            ELSE /\ nextId <= MaxSandboxes
                 /\ status' = [status EXCEPT ![nextId] = "running"]
                 /\ \E listing \in Listings(MetaLabels(metadata)) :
                      labels' = [labels EXCEPT ![nextId] = FixedLabels \o listing]
                 /\ given' = [given EXCEPT ![nextId] = metadata]
                 /\ nextId' = nextId + 1
                 /\ Log("containers.run")
                 /\ Suspend(t, "create_sleep",
                            [op |-> "create_sandbox", sid |-> nextId, snap |-> "created", issued |-> FALSE])
  /\ UNCHANGED <<client, known, lastOp, overlapped, restarted>>

\* After asyncio.sleep(0.5): SandboxInfo(container.id, STARTED, metadata). aux
\* keeps the status the engine has for the container at that moment, which the
\* code does not read, and the metadata handed back.
create_sandbox_return(t) ==
  /\ pc[t] = "create_sleep"
  /\ Finish(t, [Returned("create_sandbox", cur[t].sid, "STARTED")
                  EXCEPT !.aux = [status |-> status[cur[t].sid],
                                  metadata |-> given[cur[t].sid]]])
  /\ known' = known \cup {cur[t].sid}
  /\ NoteReturn(t, cur[t].sid, "create_sandbox", FALSE)
  /\ UNCHANGED <<client, status, nextId, engineCalled, overlapped>>

\* ---- get_sandbox ----
\* The body of get_sandbox on an initialized adapter: containers.get and the mapping.
\* aux keeps what the engine answered: the status and the decoded metadata.
get_sandbox_result(op, sid) ==
  IF status[sid] = "absent"
  THEN Raised(op, sid, "not found")
  ELSE [Returned(op, sid, MapStatus(status[sid]))
          EXCEPT !.aux = [status |-> status[sid], metadata |-> DecodeLabels(labels[sid])]]

\* The managing process is restarted: its calls in progress are gone and a new
\* adapter is constructed over the same engine, whose containers stay.
Restart ==
  /\ client' = TRUE
  /\ pc' = [t \in Tasks |-> "idle"]
  /\ cur' = [t \in Tasks |-> NoCur]
  /\ ret' = [t \in Tasks |-> NoRet]
  /\ restarted' = TRUE
  /\ UNCHANGED <<status, nextId, known, engineCalled, lastOp, overlapped, labels, given>>

get_sandbox(t, sid) ==
  /\ pc[t] = "idle"
  /\ IF NotInitialized
     THEN /\ Finish(t, Raised("get_sandbox", sid, NotInitError))
          /\ UNCHANGED engineCalled
     ELSE /\ Finish(t, get_sandbox_result("get_sandbox", sid))
          /\ Log("containers.get")
  /\ UNCHANGED <<client, status, nextId, known, lastOp, overlapped>>

\* ---- start_sandbox ----
\* if container.status != "running"
StartNeeded(st) == st # "running"

start_sandbox_lookup(t, sid) ==
  /\ pc[t] = "idle"
  /\ IF NotInitialized
     THEN /\ Finish(t, Raised("start_sandbox", sid, NotInitError))
          /\ UNCHANGED <<engineCalled, overlapped>>
     ELSE /\ Log("containers.get")
          /\ IF status[sid] = "absent"
             THEN /\ Finish(t, Raised("start_sandbox", sid, "NotFound"))
                  /\ UNCHANGED overlapped
             ELSE /\ Suspend(t, IF StartNeeded(status[sid]) THEN "start_start" ELSE "start_get",
                             [op |-> "start_sandbox", sid |-> sid, snap |-> status[sid], issued |-> FALSE])
                  /\ Begin(t, sid)
  /\ UNCHANGED <<client, status, nextId, known, lastOp>>

\* The engine refuses to start a container that is paused or on its way out.
EngineStartRefuses(st) == st \in {"paused", "removing", "dead"}

\* What the engine's start leaves a container in that it does not refuse.
EngineStart(st) == IF st \in {"created", "exited"} THEN "running" ELSE st

\* container.start, taken when the looked-up status was not "running".
start_sandbox_start(t) ==
  /\ pc[t] = "start_start"
  /\ Log("container.start")
  /\ IF status[cur[t].sid] = "absent" \/ EngineStartRefuses(status[cur[t].sid])
     THEN /\ Finish(t, [Raised("start_sandbox", cur[t].sid,
                               IF status[cur[t].sid] = "absent" THEN "NotFound" ELSE "APIError")
                          EXCEPT !.did = [snap |-> cur[t].snap, issued |-> TRUE]])
          /\ NoteReturn(t, cur[t].sid, "start_sandbox", TRUE)
          /\ UNCHANGED status
     ELSE /\ status' = [status EXCEPT ![cur[t].sid] = EngineStart(@)]
          /\ Suspend(t, "start_get", [cur[t] EXCEPT !.issued = TRUE])
          /\ UNCHANGED lastOp
  /\ UNCHANGED <<client, nextId, known, overlapped>>

\* return await self.get_sandbox(sandbox_id)
start_sandbox_get(t) ==
  /\ pc[t] = "start_get"
  /\ Log("containers.get")
  /\ Finish(t, [get_sandbox_result("start_sandbox", cur[t].sid) EXCEPT !.did = Did(cur[t])])
  /\ NoteReturn(t, cur[t].sid, "start_sandbox",
                overlapped[t] \/ status[cur[t].sid] = "absent")
  /\ UNCHANGED <<client, status, nextId, known, overlapped>>

\* ---- stop_sandbox ----
StopNeededNever(st) == FALSE

\* if container.status == "running"
StopNeeded(st) == st = "running"

stop_sandbox_lookup(t, sid) ==
  /\ pc[t] = "idle"
  /\ IF NotInitialized
     THEN /\ Finish(t, Raised("stop_sandbox", sid, NotInitError))
          /\ UNCHANGED <<engineCalled, overlapped>>
     ELSE /\ Log("containers.get")
          /\ IF status[sid] = "absent"
             THEN /\ Finish(t, Raised("stop_sandbox", sid, "NotFound"))
                  /\ UNCHANGED overlapped
             ELSE /\ Suspend(t, IF StopNeeded(status[sid]) THEN "stop_stop" ELSE "stop_get",
                             [op |-> "stop_sandbox", sid |-> sid, snap |-> status[sid], issued |-> FALSE])
                  /\ Begin(t, sid)
  /\ UNCHANGED <<client, status, nextId, known, lastOp>>

\* What the engine's stop leaves a container in: one whose process runs, is
\* frozen or is being restarted ends exited, any other is left as it is.
EngineStop(st) == IF st \in {"running", "paused", "restarting"} THEN "exited" ELSE st

\* container.stop(timeout=10), taken when the looked-up status was "running".
stop_sandbox_stop(t) ==
  /\ pc[t] = "stop_stop"
  /\ Log("container.stop")
  /\ IF status[cur[t].sid] = "absent"
     THEN /\ Finish(t, [Raised("stop_sandbox", cur[t].sid, "NotFound")
                          EXCEPT !.did = [snap |-> cur[t].snap, issued |-> TRUE]])
          /\ NoteReturn(t, cur[t].sid, "stop_sandbox", TRUE)
          /\ UNCHANGED status
     ELSE /\ status' = [status EXCEPT ![cur[t].sid] = EngineStop(@)]
          /\ Suspend(t, "stop_get", [cur[t] EXCEPT !.issued = TRUE])
          /\ UNCHANGED lastOp
  /\ UNCHANGED <<client, nextId, known, overlapped>>

stop_sandbox_get(t) ==
  /\ pc[t] = "stop_get"
  /\ Log("containers.get")
  /\ Finish(t, [get_sandbox_result("stop_sandbox", cur[t].sid) EXCEPT !.did = Did(cur[t])])
  /\ NoteReturn(t, cur[t].sid, "stop_sandbox",
                overlapped[t] \/ status[cur[t].sid] = "absent")
  /\ UNCHANGED <<client, status, nextId, known, overlapped>>

\* ---- delete_sandbox ----
DeleteNotFoundRaises(op, sid, step) ==
  [Raised(op, sid, "NotFound") EXCEPT !.gone = step]

\* except docker.errors.NotFound: logger.warning(...) and a normal return.
DeleteNotFound(op, sid, step) ==
  [Returned(op, sid, "") EXCEPT !.gone = step]

delete_sandbox_lookup(t, sid) ==
  /\ pc[t] = "idle"
  /\ IF NotInitialized
     THEN /\ Finish(t, Raised("delete_sandbox", sid, NotInitError))
          /\ UNCHANGED <<engineCalled, overlapped>>
     ELSE /\ Log("containers.get")
          /\ IF status[sid] = "absent"
             THEN /\ Finish(t, DeleteNotFound("delete_sandbox", sid, "lookup"))
                  /\ UNCHANGED overlapped
             ELSE /\ Suspend(t, IF status[sid] = "running" THEN "delete_stop" ELSE "delete_remove",
                             [op |-> "delete_sandbox", sid |-> sid, snap |-> status[sid], issued |-> FALSE])
                  /\ Begin(t, sid)
  /\ UNCHANGED <<client, status, nextId, known, lastOp>>

\* container.stop(timeout=5), taken when the looked-up status was "running".
delete_sandbox_stop(t) ==
  /\ pc[t] = "delete_stop"
  /\ Log("container.stop")
  /\ IF status[cur[t].sid] = "absent"
     THEN /\ Finish(t, DeleteNotFound("delete_sandbox", cur[t].sid, "stop"))
          /\ NoteReturn(t, cur[t].sid, "delete_sandbox", overlapped[t])
          /\ UNCHANGED status
     ELSE /\ status' = [status EXCEPT ![cur[t].sid] = EngineStop(@)]
          /\ Suspend(t, "delete_remove", cur[t])
          /\ UNCHANGED lastOp
  /\ UNCHANGED <<client, nextId, known, overlapped>>

\* container.remove(force=True)
delete_sandbox_remove(t) ==
  /\ pc[t] = "delete_remove"
  /\ Log("container.remove")
  /\ IF status[cur[t].sid] = "absent"
     THEN /\ Finish(t, DeleteNotFound("delete_sandbox", cur[t].sid, "remove"))
          /\ UNCHANGED status
     ELSE /\ status' = [status EXCEPT ![cur[t].sid] = "absent"]
          /\ Finish(t, Returned("delete_sandbox", cur[t].sid, ""))
  /\ NoteReturn(t, cur[t].sid, "delete_sandbox", overlapped[t])
  /\ UNCHANGED <<client, nextId, known, overlapped>>

\* ---- health_check ----
\* try: (await self.get_sandbox(id)).state == STARTED; except: return False
health_check(t, sid) ==
  /\ pc[t] = "idle"
  /\ IF NotInitialized
     THEN /\ Finish(t, Returned("health_check", sid, FALSE))
          /\ UNCHANGED engineCalled
     ELSE /\ Finish(t, Returned("health_check", sid,
                                status[sid] # "absent" /\ MapStatus(status[sid]) = "STARTED"))
          /\ Log("containers.get")
  /\ UNCHANGED <<client, status, nextId, known, lastOp, overlapped>>

\* The engine, or another client of it, moves an existing container to another
\* status: its process exits or is frozen, it is restarted, it is being removed.
EngineDrift(s) ==
  /\ status[s] # "absent"
  /\ \E st \in DockerStatuses \ {status[s]} : status' = [status EXCEPT ![s] = st]
  /\ UNCHANGED <<client, nextId, known, pc, cur, ret, engineCalled, lastOp, overlapped>>

\* Another client of the engine removes an existing container.
EngineRemoves(s) ==
  /\ status[s] # "absent"
  /\ status' = [status EXCEPT ![s] = "absent"]
  /\ UNCHANGED <<client, nextId, known, pc, cur, ret, engineCalled, lastOp, overlapped>>

AdapterIdle ==
  /\ status = [s \in Ids |-> "absent"]
  /\ nextId = 1
  /\ known = {}
  /\ pc = [t \in Tasks |-> "idle"]
  /\ cur = [t \in Tasks |-> NoCur]
  /\ ret = [t \in Tasks |-> NoRet]
  /\ engineCalled = FALSE
  /\ lastOp = [s \in Ids |-> "none"]
  /\ overlapped = [t \in Tasks |-> FALSE]



(***************************************************************************)
(* Part 3: execute_command, its worker pool and its timer                  *)
(* (docker_sandbox.py, execute_command)                                    *)
(***************************************************************************)
VARIABLES
  now,        \* the event loop's clock, in seconds
  queue,      \* the default executor's work queue: tasks whose job waits for a thread
  job,        \* per task, the job it awaits: [state, kind, res]
  orphans,    \* worker threads still held by exec_run calls whose caller timed out
  call        \* per task, the current execute_command: [start, timeout, deadline]

execVars == <<now, queue, job, orphans, call>>

\* The tasks that call execute_command; the threads of earlier calls that timed
\* out compete with them for the pool.
ExecTasks == {1}

\* max_workers of the loop's default ThreadPoolExecutor.
PoolSize == 2
MaxTime == 4
DEFAULT_TIMEOUT == 300
\* The timeout arguments drawn; 0 stands for None (both falsy).
TimeoutArgs == {0, 1, 2}

\* What a finished engine call gave: error is "" when it succeeded.
JobRes(error, exit_code, out, err) ==
  [error |-> error, exit_code |-> exit_code, out |-> out, err |-> err]
NoRes == JobRes("", 0, "None", "None")
NoJob == [state |-> "none", kind |-> "none", res |-> NoRes]
NoCall == [start |-> 0, timeout |-> 0, deadline |-> 0]

\* ExecuteResult (adapter.py); error "None" is Python's None.
ExecuteResult(exit_code, stdout, stderr, success, error) ==
  [exit_code |-> exit_code, stdout |-> stdout, stderr |-> stderr,
   success |-> success, error |-> error]

TimeoutResultWrong(timeout) ==
  ExecuteResult(-1, "", <<"Command timeout after", timeout, "seconds">>, FALSE, "None")

\* The result built in `except asyncio.TimeoutError`.
TimeoutResult(timeout) ==
  ExecuteResult(-1, "", <<"Command timeout after", timeout, "seconds">>, FALSE, "Timeout")

FailureResultNoStderr(e) == ExecuteResult(-1, "", "", FALSE, e)

\* The result built in the outer `except Exception as e`.
FailureResult(e) == ExecuteResult(-1, "", e, FALSE, e)

\* What exec_run hands back for one stream: None, UTF-8 text, or bytes that are
\* not valid UTF-8.
StreamValues == {"None", "text", "bad"}
\* The outcomes of exec_run drawn for a running container: exit code, stdout, stderr.
ExecSamples ==
  {JobRes("", 0, "text", "None"), JobRes("", 0, "None", "None"),
   JobRes("", 1, "None", "text"), JobRes("", 0, "bad", "None"), JobRes("", 1, "text", "bad")}

\* The result built from a completed exec_run: decode('utf-8') of a stream that is
\* not UTF-8 raises, and the outer handler turns that into a failure result.
CompletedResult(exit_code, out, err) ==
  IF out = "bad" \/ err = "bad"
  THEN FailureResult("UnicodeDecodeError")
  ELSE ExecuteResult(exit_code, IF out = "None" THEN "" ELSE out,
                     IF err = "None" THEN "" ELSE err, exit_code = 0, "None")

\* timeout = timeout or self.DEFAULT_TIMEOUT
EffectiveTimeout(timeout) == IF timeout = 0 THEN DEFAULT_TIMEOUT ELSE timeout

Busy == Cardinality({t \in Tasks : job[t].state = "running"}) + orphans

\* loop.run_in_executor(None, ...): the job joins the executor's queue.
Submit(t, kind) ==
  /\ job' = [job EXCEPT ![t] = [state |-> "queued", kind |-> kind, res |-> NoRes]]
  /\ queue' = Append(queue, t)

\* Up to the first await: the client test, the timeout default, the lookup job.
execute_command_begin(t, sid, timeout) ==
  /\ pc[t] = "idle"
  /\ IF NotInitialized
     THEN /\ Finish(t, Raised("execute_command", sid, NotInitError))
          /\ UNCHANGED <<job, queue, call>>
     ELSE /\ Suspend(t, "exec_await_get",
                     [op |-> "execute_command", sid |-> sid, snap |-> "absent", issued |-> FALSE])
          /\ call' = [call EXCEPT ![t] = [start |-> now,
                                          timeout |-> EffectiveTimeout(timeout),
                                          deadline |-> 0]]
          /\ Submit(t, "get")
  /\ UNCHANGED <<client, status, nextId, known, engineCalled, lastOp, overlapped, now, orphans>>

\* A free worker thread takes the job at the head of the queue.
WorkerStart ==
  /\ queue # <<>>
  /\ Busy < PoolSize
  /\ job' = [job EXCEPT ![Head(queue)].state = "running"]
  /\ queue' = Tail(queue)
  /\ UNCHANGED <<adapterVars, now, orphans, call>>

\* The engine answers the call a worker thread is blocked in.
EngineFinish(t) ==
  /\ job[t].state = "running"
  /\ IF job[t].kind = "get"
     THEN /\ job' = [job EXCEPT ![t] = [state |-> "done", kind |-> "get",
                       res |-> IF status[cur[t].sid] = "absent"
                               THEN JobRes("NotFound", 0, "None", "None") ELSE NoRes]]
          /\ Log("containers.get")
     ELSE /\ \E r \in IF status[cur[t].sid] = "absent"
                      THEN {JobRes("NotFound", 0, "None", "None")}
                      ELSE IF status[cur[t].sid] # "running"
                      THEN {JobRes("Conflict", 0, "None", "None")}
                      ELSE ExecSamples :
               job' = [job EXCEPT ![t] = [state |-> "done", kind |-> "exec", res |-> r]]
          /\ Log("container.exec_run")
  /\ UNCHANGED <<client, status, nextId, known, pc, cur, ret, lastOp, overlapped,
                 now, queue, orphans, call>>

\* The lookup's future resolved: a failure goes to the outer handler, otherwise
\* exec_run is submitted and wait_for arms its timer.
execute_command_after_get(t) ==
  /\ pc[t] = "exec_await_get"
  /\ job[t].state = "done"
  /\ IF job[t].res.error # ""
     THEN /\ Finish(t, Returned("execute_command", cur[t].sid, FailureResult(job[t].res.error)))
          /\ job' = [job EXCEPT ![t] = NoJob]
          /\ call' = [call EXCEPT ![t] = NoCall]
          /\ UNCHANGED queue
     ELSE /\ Suspend(t, "exec_await_exec", [cur[t] EXCEPT !.snap = "found"])
          /\ call' = [call EXCEPT ![t].deadline = now + call[t].timeout]
          /\ Submit(t, "exec")
  /\ UNCHANGED <<client, status, nextId, known, engineCalled, lastOp, overlapped, now, orphans>>

\* exec_run's future resolved before the timer was handled. aux keeps whether
\* exec_run returned, that is, whether the program ran to its end.
execute_command_done(t) ==
  /\ pc[t] = "exec_await_exec"
  /\ job[t].state = "done"
  /\ Finish(t, [Returned("execute_command", cur[t].sid,
                         IF job[t].res.error # ""
                         THEN FailureResult(job[t].res.error)
                         ELSE CompletedResult(job[t].res.exit_code, job[t].res.out,
                                              job[t].res.err))
                  EXCEPT !.aux = IF job[t].res.error = "" THEN "completed" ELSE ""])
  /\ job' = [job EXCEPT ![t] = NoJob]
  /\ call' = [call EXCEPT ![t] = NoCall]
  /\ UNCHANGED <<client, status, nextId, known, engineCalled, lastOp, overlapped,
                 now, queue, orphans>>

execute_command_timeout_kills(t) ==
  /\ pc[t] = "exec_await_exec"
  /\ job[t].state # "done"
  /\ now >= call[t].deadline
  /\ Finish(t, [Returned("execute_command", cur[t].sid, TimeoutResult(call[t].timeout))
                  EXCEPT !.gone = "timeout"])
  /\ queue' = SelectSeq(queue, LAMBDA u : u # t)
  /\ status' = [status EXCEPT ![cur[t].sid] = "exited"]
  /\ job' = [job EXCEPT ![t] = NoJob]
  /\ call' = [call EXCEPT ![t] = NoCall]
  /\ UNCHANGED <<client, nextId, known, engineCalled, lastOp, overlapped, now, orphans>>

\* wait_for's timer is due and exec_run's future is not resolved: the future is
\* cancelled (a queued job never runs, a running one keeps its thread) and the
\* timeout result is returned.
execute_command_timeout(t) ==
  /\ pc[t] = "exec_await_exec"
  /\ job[t].state # "done"
  /\ now >= call[t].deadline
  /\ Finish(t, [Returned("execute_command", cur[t].sid, TimeoutResult(call[t].timeout))
                  EXCEPT !.gone = "timeout"])
  /\ queue' = SelectSeq(queue, LAMBDA u : u # t)
  /\ orphans' = IF job[t].state = "running" THEN orphans + 1 ELSE orphans
  /\ job' = [job EXCEPT ![t] = NoJob]
  /\ call' = [call EXCEPT ![t] = NoCall]
  /\ UNCHANGED <<client, status, nextId, known, engineCalled, lastOp, overlapped, now>>

\* The engine finishes an exec_run nobody waits for; its thread is free again.
OrphanFinish ==
  /\ orphans > 0
  /\ orphans' = orphans - 1
  /\ UNCHANGED <<adapterVars, now, queue, job, call>>

\* A second passes.  The loop handles a due timer before it lets time go on.
Tick ==
  /\ now < MaxTime
  /\ \A t \in Tasks : pc[t] = "exec_await_exec" => now < call[t].deadline
  /\ now' = now + 1
  /\ UNCHANGED <<adapterVars, queue, job, orphans, call>>

ExecIdle ==
  /\ now = 0
  /\ queue = <<>>
  /\ job = [t \in Tasks |-> NoJob]
  /\ orphans = 0
  /\ call = [t \in Tasks |-> NoCall]

\* The adapter after one create_sandbox: container 1 runs and its id is known.
OneSandbox ==
  /\ status = [s \in Ids |-> IF s = 1 THEN "running" ELSE "absent"]
  /\ nextId = 2
  /\ known = {1}
  /\ pc = [t \in Tasks |-> "idle"]
  /\ cur = [t \in Tasks |-> NoCur]
  /\ ret = [t \in Tasks |-> NoRet]
  /\ engineCalled = TRUE
  /\ lastOp = [s \in Ids |-> IF s = 1 THEN "create_sandbox" ELSE "none"]
  /\ overlapped = [t \in Tasks |-> FALSE]



(***************************************************************************)
(* Part 4: the file operations (docker_sandbox.py, write_file, read_file,  *)
(* list_files, delete_file) and the container's filesystem                 *)
(***************************************************************************)
VARIABLES
  fs,           \* the filesystem of container 1: path -> [kind, data, mtime, mode]
  lastWritten   \* per file path, the bytes the last successful write_file was given (history)

fileVars == <<fs, lastWritten>>

\* A file name is the sequence of its whitespace-separated words; a path is the
\* sequence of its names below the root.
N_workspace == <<"workspace">>
N_test == <<"test.txt">>
N_spaced == <<"my", "old", "file">>
N_missing == <<"missing">>

Root == <<>>
Workspace == <<N_workspace>>
\* The paths at which the model's container can hold a file.
FileSlots == {<<N_workspace, N_test>>, <<N_workspace, N_spaced>>}
\* ls prints a directory's entries sorted by name.
SlotOrder == << <<N_workspace, N_spaced>>, <<N_workspace, N_test>> >>
FsPaths == {Root, Workspace} \cup FileSlots
\* The path arguments drawn: the file slots, a path under a missing directory,
\* and the path of an existing directory.
PathArgs == FileSlots \cup {<<N_missing, N_test>>, Workspace}

\* Bytes drawn for file contents; 255 never occurs in valid UTF-8.
Bytes == {0, 255}
MaxLen == 1
Hello == <<104, 101, 108, 108, 111>>
Contents == UNION {[1..n -> Bytes] : n \in 0..MaxLen} \cup {Hello}

\* mode: int = 0o644
FileMode == 420

NotWritten == [known |-> FALSE, data |-> <<>>]
NoNode == [kind |-> "none", data |-> <<>>, mtime |-> 0, mode |-> 0]
Node(f, p) == IF p \in DOMAIN f THEN f[p] ELSE NoNode

\* os.path.basename and os.path.dirname of an absolute path without a trailing slash.
basename(path) == path[Len(path)]
dirname(path) == SubSeq(path, 1, Len(path) - 1)

TarInfoSizeShort(content) == IF Len(content) > 0 THEN Len(content) - 1 ELSE 0

\* tarinfo.size = len(content)
TarInfoSize(content) == Len(content)

\* The archive write_file builds: one entry; addfile copies tarinfo.size bytes.
MakeTar(path, content, mode, mtime) ==
  << [name |-> basename(path), type |-> "file", size |-> TarInfoSize(content),
      mode |-> mode, mtime |-> mtime,
      data |-> SubSeq(content, 1, TarInfoSize(content))] >>

\* The engine's put_archive: the entries are unpacked below dest, which must be an
\* existing directory; a file is not written over a directory.
RECURSIVE Unpack(_, _, _)
Unpack(f, dest, tar) ==
  IF tar = <<>> THEN [ok |-> TRUE, fs |-> f]
  ELSE LET e == Head(tar)
           target == Append(dest, e.name)
       IN  IF Node(f, target).kind = "dir" THEN [ok |-> FALSE, fs |-> f]
           ELSE Unpack(IF target \in DOMAIN f
                       THEN [f EXCEPT ![target] = [kind |-> "file", data |-> e.data,
                                                   mtime |-> e.mtime, mode |-> e.mode]]
                       ELSE f,
                       dest, Tail(tar))

put_archive(f, dest, tar) ==
  IF Node(f, dest).kind # "dir" THEN [ok |-> FALSE, fs |-> f] ELSE Unpack(f, dest, tar)

\* The files directly below directory p, in ls order.
Children(f, p) == SelectSeq(SlotOrder, LAMBDA q : dirname(q) = p /\ Node(f, q).kind # "none")

\* The engine's get_archive: a file gives one entry, a directory gives its own
\* entry followed by its files.
get_archive(f, path) ==
  LET n == Node(f, path)
      entry(q) == [name |-> IF q = Root THEN <<"/">> ELSE basename(q), type |-> Node(f, q).kind,
                   size |-> Len(Node(f, q).data), mode |-> Node(f, q).mode,
                   mtime |-> Node(f, q).mtime, data |-> Node(f, q).data]
  IN  IF n.kind = "file" THEN << entry(path) >>
      ELSE <<entry(path)>> \o [i \in 1..Len(Children(f, path)) |-> entry(Children(f, path)[i])]

\* member = tar_file.next(); extractfile(member).read(), b"" when extractfile
\* gives None (the member is no regular file).
FirstMember(tar) ==
  IF tar[1].type = "file" THEN SubSeq(tar[1].data, 1, tar[1].size) ELSE <<>>

write_file(t, sid, path, content) ==
  /\ pc[t] = "idle"
  /\ IF NotInitialized
     THEN /\ Finish(t, Raised("write_file", sid, NotInitError))
          /\ UNCHANGED <<engineCalled, fs, lastWritten>>
     ELSE IF status[sid] = "absent"
     THEN /\ Finish(t, Raised("write_file", sid, "NotFound"))
          /\ Log("containers.get")
          /\ UNCHANGED <<fs, lastWritten>>
     ELSE LET r == put_archive(fs, dirname(path), MakeTar(path, content, FileMode, now))
          IN  /\ Log("container.put_archive")
              /\ fs' = r.fs
              /\ IF r.ok
                 THEN /\ Finish(t, [Returned("write_file", sid, "") EXCEPT !.aux = path])
                      /\ lastWritten' = [p \in DOMAIN lastWritten |->
                                           IF p = path THEN [known |-> TRUE, data |-> content]
                                           ELSE lastWritten[p]]
                 ELSE /\ Finish(t, Raised("write_file", sid, "APIError"))
                      /\ UNCHANGED lastWritten
  /\ UNCHANGED <<client, status, nextId, known, lastOp, overlapped>>

read_file(t, sid, path) ==
  /\ pc[t] = "idle"
  /\ IF NotInitialized
     THEN /\ Finish(t, Raised("read_file", sid, NotInitError))
          /\ UNCHANGED engineCalled
     ELSE IF status[sid] = "absent"
     THEN /\ Finish(t, Raised("read_file", sid, "NotFound"))
          /\ Log("containers.get")
     ELSE IF Node(fs, path).kind = "none"
     THEN /\ Finish(t, Raised("read_file", sid, "NotFound"))
          /\ Log("container.get_archive")
     ELSE /\ Finish(t, [Returned("read_file", sid, FirstMember(get_archive(fs, path)))
                          EXCEPT !.aux = [path |-> path,
                                          written |-> IF path \in DOMAIN lastWritten
                                                      THEN lastWritten[path] ELSE NotWritten]])
          /\ Log("container.get_archive")
  /\ UNCHANGED <<client, status, nextId, known, lastOp, overlapped, fs, lastWritten>>

\* The words the shell makes of a path put unquoted into a command line, as the
\* paths they name: the first word is absolute, the others are relative to the
\* working directory /workspace.
ShellWords(path) ==
  IF path = Root THEN {Root}
  ELSE LET nm == basename(path)
       IN  {Append(dirname(path), <<nm[1]>>)}
             \cup {Append(Workspace, <<nm[i]>>) : i \in 2..Len(nm)}

\* The permissions column for the modes the model's files and directories have.
PermString(n) == IF n.kind = "dir" THEN "drwxr-xr-x" ELSE "-rw-r--r--"

\* permissions.startswith('d')
StartsWithD(perm) == perm = "drwxr-xr-x"

\* One line of `ls -la --time-style=+%s`, as the fields str.split() gives:
\* permissions, links, owner, group, size, epoch mtime, then the name's words.
LsLine(n, name) ==
  << PermString(n), 1, "root", "root", Len(n.data), n.mtime >> \o name

\* The path as the one word it is on the command line and in ls's output.
PathText(path) == IF path = <<N_workspace, N_test>> THEN "/workspace/test.txt" ELSE "/workspace"

\* What `ls -la --time-style=+%s path` prints for one existing path without spaces.
LsOutput(f, path) ==
  IF Node(f, path).kind = "dir"
  THEN << <<"total", Len(Children(f, path))>>,
          LsLine(Node(f, path), <<".">>),
          LsLine(Node(f, Root), <<"..">>) >>
       \o [i \in 1..Len(Children(f, path)) |->
             LsLine(Node(f, Children(f, path)[i]), basename(Children(f, path)[i]))]
  ELSE << LsLine(Node(f, path), <<PathText(path)>>) >>

FileInfo(path, size, is_directory, modified_time) ==
  [path |-> path, size |-> size, is_directory |-> is_directory,
   modified_time |-> modified_time]

\* The index of the first field of the name: name = ' '.join(parts[8:]).
NameIndex == 9

\* list_files' loop over the lines of stdout.
RECURSIVE ParseLs(_, _)
ParseLs(path, lines) ==
  IF lines = <<>> THEN <<>>
  ELSE LET parts == Head(lines)
           rest == ParseLs(path, Tail(lines))
       IN  IF parts = <<>> \/ parts[1] = "total" THEN rest
           ELSE IF Len(parts) < NameIndex THEN rest
           ELSE LET name == SubSeq(parts, NameIndex, Len(parts))
                IN  IF name \in {<<".">>, <<"..">>} THEN rest
                    ELSE << FileInfo(Append(path, name), parts[5], StartsWithD(parts[1]),
                                     parts[6]) >> \o rest

\* Whether `ls` finds what the command line names: the path exists and its name
\* is one word (the shell splits an unquoted name at its spaces).
LsFinds(f, path) == Node(f, path).kind # "none" /\ (path = Root \/ Len(basename(path)) = 1)

\* The ways one execute_command made by list_files or delete_file can end on an
\* initialized adapter: the lookup fails, the timer wins, or the command completes.
ExecWays(sid) == IF status[sid] = "absent" THEN {"failed"} ELSE {"completed", "timeout"}

list_files(t, sid, path) ==
  /\ pc[t] = "idle"
  /\ IF NotInitialized
     THEN /\ Finish(t, Raised("list_files", sid, NotInitError))
          /\ UNCHANGED engineCalled
     ELSE \E way \in ExecWays(sid) :
            /\ Log(IF way = "failed" THEN "containers.get" ELSE "container.exec_run")
            /\ IF way = "completed" /\ LsFinds(fs, path)
               THEN Finish(t, [Returned("list_files", sid, ParseLs(path, LsOutput(fs, path)))
                                 EXCEPT !.aux = [path |-> path, ok |-> TRUE,
                                                 lines |-> LsOutput(fs, path)]])
               ELSE Finish(t, [Returned("list_files", sid, <<>>)
                                 EXCEPT !.aux = [path |-> path, ok |-> FALSE, lines |-> <<>>]])
  /\ UNCHANGED <<client, status, nextId, known, lastOp, overlapped, fs, lastWritten>>

\* `rm -rf` of the words of the path: each named file goes.
Remove(f, targets) ==
  [p \in DOMAIN f |-> IF p \in targets /\ p \in FileSlots THEN NoNode ELSE f[p]]

delete_file(t, sid, path) ==
  /\ pc[t] = "idle"
  /\ IF NotInitialized
     THEN /\ Finish(t, Raised("delete_file", sid, NotInitError))
          /\ UNCHANGED <<engineCalled, fs, lastWritten>>
     ELSE \E way \in ExecWays(sid) : \E ran \in BOOLEAN :
            /\ (way = "completed" => ran) /\ (way = "failed" => ~ran)
            /\ Log(IF way = "failed" THEN "containers.get" ELSE "container.exec_run")
            /\ fs' = IF ran THEN Remove(fs, ShellWords(path)) ELSE fs
            /\ lastWritten' = IF ran
                              THEN [p \in DOMAIN lastWritten |->
                                      IF p \in ShellWords(path) THEN NotWritten ELSE lastWritten[p]]
                              ELSE lastWritten
            /\ IF way = "completed"
               THEN Finish(t, [Returned("delete_file", sid, "") EXCEPT !.aux = path])
               ELSE Finish(t, Raised("delete_file", sid, "Failed to delete"))
  /\ UNCHANGED <<client, status, nextId, known, lastOp, overlapped>>

FilesIdle ==
  /\ fs = [p \in FsPaths |-> IF p \in {Root, Workspace}
                             THEN [kind |-> "dir", data |-> <<>>, mtime |-> 0, mode |-> 493]
                             ELSE NoNode]
  /\ lastWritten = [p \in FileSlots |-> NotWritten]

\* The file operations are single steps here, so one caller shows every order of them.
FileTasks == {1}

(***************************************************************************)
(* Part 5: get_resource_usage (docker_sandbox.py)                          *)
(***************************************************************************)
MaxCounter == 2
CounterValues == 0..MaxCounter

\* What container.stats(stream=False) gives: ok is FALSE when the engine call
\* raised, complete is FALSE when a key the code reads is missing from the sample.
StatsSample(ok, complete, cpu, precpu, system, presystem, usage, limit) ==
  [ok |-> ok, complete |-> complete, cpu |-> cpu, precpu |-> precpu, system |-> system,
   presystem |-> presystem, usage |-> usage, limit |-> limit]

StatsSamples ==
  [ok : {TRUE}, complete : {TRUE}, cpu : CounterValues, precpu : CounterValues,
   system : CounterValues, presystem : CounterValues,
   usage : CounterValues, limit : CounterValues]
    \cup {StatsSample(TRUE, FALSE, 0, 0, 0, 0, 0, 0), StatsSample(FALSE, FALSE, 0, 0, 0, 0, 0, 0)}

\* round(a / b * 100.0, 2) for b > 0, in hundredths of a percent, ties to even.
Percent(a, b) ==
  LET n == a * 10000
      q == n \div b
      r == n - q * b
  IN  IF 2 * r < b THEN q
      ELSE IF 2 * r > b THEN q + 1
      ELSE IF q % 2 = 0 THEN q ELSE q + 1

EmptyUsage ==
  [empty |-> TRUE, cpu_percent |-> 0, memory_bytes |-> 0,
   memory_limit_bytes |-> 0, memory_percent |-> 0]

\* The map computed from a stats sample; a missing key raises and gives {}.
Usage(st) ==
  IF ~st.complete THEN EmptyUsage
  ELSE LET cpu_delta == st.cpu - st.precpu
           system_delta == st.system - st.presystem
       IN  [empty |-> FALSE,
            cpu_percent |-> IF system_delta > 0 THEN Percent(cpu_delta, system_delta) ELSE 0,
            memory_bytes |-> st.usage,
            memory_limit_bytes |-> st.limit,
            memory_percent |-> IF st.limit > 0 THEN Percent(st.usage, st.limit) ELSE 0]

UsageOutcomeRaises(sid, found, st) ==
  IF found /\ st.ok /\ st.complete
  THEN [Returned("get_resource_usage", sid, Usage(st))
          EXCEPT !.aux = [found |-> found, ok |-> st.ok, complete |-> st.complete]]
  ELSE Raised("get_resource_usage", sid, "KeyError")

\* The body of the try: containers.get, container.stats and the computation,
\* with `except Exception: return {}` around all three.
UsageOutcome(sid, found, st) ==
  [Returned("get_resource_usage", sid, IF found /\ st.ok THEN Usage(st) ELSE EmptyUsage)
     EXCEPT !.aux = [found |-> found, ok |-> st.ok, complete |-> st.complete]]

get_resource_usage(t, sid) ==
  /\ pc[t] = "idle"
  /\ IF NotInitialized
     THEN /\ Finish(t, Raised("get_resource_usage", sid, NotInitError))
          /\ UNCHANGED engineCalled
     ELSE IF status[sid] = "absent"
     THEN /\ Finish(t, UsageOutcome(sid, FALSE, StatsSample(FALSE, FALSE, 0, 0, 0, 0, 0, 0)))
          /\ Log("containers.get")
     ELSE \E st \in StatsSamples :
            /\ Finish(t, UsageOutcome(sid, TRUE, st))
            /\ Log("container.stats")
  /\ UNCHANGED <<client, status, nextId, known, lastOp, overlapped>>

(***************************************************************************)
(* Part 6: the compatibility shim's get_or_start_sandbox (compat.py)       *)
(***************************************************************************)
VARIABLES
  astate,      \* the state the adapter's get_sandbox reports now ("missing": it raises)
  spc,         \* where get_or_start_sandbox is: idle, start, sleep, poll, done
  info,        \* info.state, the state last seen by the helper
  polls,       \* polls of the loop (its get_sandbox calls) made in this call
  slept,       \* seconds slept in this call
  gets,        \* adapter.get_sandbox calls made in this call
  starts,      \* adapter.start_sandbox calls made in this call
  everStarted, \* a poll of this call observed STARTED
  adapterRaised, \* an adapter call of this call raised
  sres,        \* the call's outcome: none, returned, raised
  handle       \* the CompatSandbox returned: [sandbox_id, metadata_of, state]

compatVars == <<astate, spc, info, polls, slept, gets, starts, everStarted,
                adapterRaised, sres, handle>>

\* for _ in range(30)
PollAttempts == 30
\* await asyncio.sleep(1)
PollInterval == 1

AdapterStates == SandboxStates \cup {"missing"}

NoHandle == [sandbox_id |-> 0, seen |-> "None", state |-> "None"]

\* CompatSandbox(adapter, sandbox_id, info.metadata): _state starts as None.
CompatSandbox(sandbox_id, seen) == [sandbox_id |-> sandbox_id, seen |-> seen, state |-> "None"]

NeedsStartStoppedOnly(st) == st = "STOPPED"

\* info.state in [SandboxState.STOPPED, SandboxState.ARCHIVED]
NeedsStart(st) == st \in {"STOPPED", "ARCHIVED"}

\* The poll counter is followed to one past the loop's bound.
MaxPolls == PollAttempts + 1

LoopNeverExhausted(i) == FALSE

\* range(30) has no further element after i iterations.
LoopExhausted(i) == i >= PollAttempts

\* Up to the first adapter.get_sandbox.
gos_begin ==
  /\ spc \in {"idle", "done"}
  /\ polls' = 0 /\ slept' = 0 /\ starts' = 0 /\ everStarted' = FALSE
  /\ gets' = 1
  /\ IF astate = "missing"
     THEN /\ spc' = "done" /\ sres' = "raised" /\ adapterRaised' = TRUE
          /\ info' = "None"
     ELSE /\ info' = astate
          /\ adapterRaised' = FALSE
          /\ IF NeedsStart(astate)
             THEN spc' = "start" /\ sres' = "none"
             ELSE spc' = "done" /\ sres' = "returned"
  /\ handle' = IF astate # "missing" /\ ~NeedsStart(astate)
               THEN CompatSandbox(1, astate) ELSE NoHandle
  /\ UNCHANGED astate

\* await adapter.start_sandbox(sandbox_id): it raises for a missing sandbox,
\* otherwise the sandbox is started or on its way.
gos_start ==
  /\ spc = "start"
  /\ starts' = starts + 1
  /\ IF astate = "missing"
     THEN /\ spc' = "done" /\ sres' = "raised" /\ adapterRaised' = TRUE
          /\ UNCHANGED astate
     ELSE /\ astate' \in {"STARTED", "CREATING"}
          /\ spc' = "sleep"
          /\ UNCHANGED <<sres, adapterRaised>>
  /\ UNCHANGED <<info, polls, slept, gets, everStarted, handle>>

\* await asyncio.sleep(1)
gos_sleep ==
  /\ spc = "sleep"
  /\ slept' = slept + PollInterval
  /\ spc' = "poll"
  /\ UNCHANGED <<astate, info, polls, gets, starts, everStarted, adapterRaised, sres, handle>>

\* info = await adapter.get_sandbox(sandbox_id); break on STARTED; the next
\* iteration, or the return after the loop.
gos_poll ==
  /\ spc = "poll"
  /\ polls < MaxPolls
  /\ gets' = gets + 1
  /\ IF astate = "missing"
     THEN /\ spc' = "done" /\ sres' = "raised" /\ adapterRaised' = TRUE
          /\ UNCHANGED <<info, polls, everStarted, handle>>
     ELSE /\ info' = astate
          /\ polls' = polls + 1
          /\ everStarted' = (astate = "STARTED")
          /\ UNCHANGED adapterRaised
          /\ IF astate = "STARTED" \/ LoopExhausted(polls + 1)
             THEN /\ spc' = "done" /\ sres' = "returned"
                  /\ handle' = CompatSandbox(1, astate)
             ELSE /\ spc' = "sleep"
                  /\ UNCHANGED <<sres, handle>>
  /\ UNCHANGED <<astate, slept, starts>>

\* The sandbox changes state under the adapter: the engine, or another client.
WorldChange ==
  /\ astate' \in AdapterStates \ {astate}
  /\ UNCHANGED <<spc, info, polls, slept, gets, starts, everStarted, adapterRaised,
                 sres, handle>>

CompatIdle ==
  /\ astate = "STARTED"
  /\ spc = "idle"
  /\ info = "None"
  /\ polls = 0 /\ slept = 0 /\ gets = 0 /\ starts = 0
  /\ everStarted = FALSE /\ adapterRaised = FALSE
  /\ sres = "none"
  /\ handle = NoHandle

(***************************************************************************)
(* Part 7: one CompatSandbox handle: get_state, state and process          *)
(* (compat.py)                                                             *)
(***************************************************************************)
VARIABLES
  h_state,    \* the handle's _state: "None" or the state kept by get_state
  hret,       \* the handle's last operation: [op, kind, val, live, called]
  sessions,   \* _sessions of the ProcessOperations the last access of process gave
  created     \* the session ids create_session returned for on this handle (history)

handleVars == <<h_state, hret, sessions, created>>

SessionIds == {"s1", "s2"}

\* live: what the adapter reported, or would have, at the call; called: whether
\* the operation called the adapter.
HandleResult(op, kind, val, live, called) ==
  [op |-> op, kind |-> kind, val |-> val, live |-> live, called |-> called]

\* get_state's test, negated: self._state is None.
StateCached == h_state # "None"

\* await sandbox.get_state()
get_state ==
  /\ IF StateCached
     THEN /\ hret' = HandleResult("get_state", "returned", h_state, astate, FALSE)
          /\ UNCHANGED h_state
     ELSE IF astate = "missing"
     THEN /\ hret' = HandleResult("get_state", "raised", "None", astate, TRUE)
          /\ UNCHANGED h_state
     ELSE /\ h_state' = astate
          /\ hret' = HandleResult("get_state", "returned", astate, astate, TRUE)
  /\ UNCHANGED <<sessions, created>>

\* sandbox.state
state ==
  /\ hret' = HandleResult("state", "returned", h_state, astate, FALSE)
  /\ UNCHANGED <<h_state, sessions, created>>

\* sandbox.process: the property constructs a ProcessOperations, whose __init__
\* sets _sessions = {}.
process ==
  /\ sessions' = {}
  /\ hret' = HandleResult("process", "returned", "None", astate, FALSE)
  /\ UNCHANGED <<h_state, created>>

\* await sandbox.process.create_session(session_id): the access of process, then
\* the entry in that object's _sessions.
create_session(session_id) ==
  /\ sessions' = {} \cup {session_id}
  /\ created' = created \cup {session_id}
  /\ hret' = HandleResult("create_session", "returned", session_id, astate, FALSE)
  /\ UNCHANGED h_state

\* A handle just constructed.
HandleIdle ==
  /\ h_state = "None"
  /\ hret = HandleResult("none", "none", "None", "None", FALSE)
  /\ sessions = {}
  /\ created = {}

(***************************************************************************)
(* Part 8: the event loop thread and the calls offloaded from it           *)
(* (docker_sandbox.py, get_sandbox and read_file)                          *)
(***************************************************************************)
VARIABLES
  lpc,      \* per task, where its call is: idle, await_get, await_archive, join
  lcur,     \* per task, the call: [op, sid]
  ljob,     \* per task, its job on the worker pool: none, queued, running, done
  loopIn    \* the task whose synchronous engine read the loop thread is inside, or 0

loopVars == <<lpc, lcur, ljob, loopIn>>

LoopOps == {"get_sandbox", "read_file"}
NoLoopCall == [op |-> "none", sid |-> BogusId]

\* The loop thread runs a step of a coroutine only when it is not inside a call.
LoopFree == loopIn = 0

\* Worker threads of the default executor held by the jobs of this part.
LoopBusy == Cardinality({t \in Tasks : ljob[t] = "running"})

\* loop.run_in_executor(None, self.client.containers.get, sandbox_id): the first
\* await of get_sandbox and of read_file.
offload_get(t, op, sid) ==
  /\ LoopFree
  /\ lpc[t] = "idle"
  /\ lpc' = [lpc EXCEPT ![t] = "await_get"]
  /\ lcur' = [lcur EXCEPT ![t] = [op |-> op, sid |-> sid]]
  /\ ljob' = [ljob EXCEPT ![t] = "queued"]
  /\ UNCHANGED loopIn

\* A free worker thread takes a queued job and calls the engine.
worker_takes(t) ==
  /\ ljob[t] = "queued"
  /\ LoopBusy < PoolSize
  /\ ljob' = [ljob EXCEPT ![t] = "running"]
  /\ UNCHANGED <<lpc, lcur, loopIn>>

\* The engine answers the call a worker thread is blocked in.
engine_answers(t) ==
  /\ ljob[t] = "running"
  /\ ljob' = [ljob EXCEPT ![t] = "done"]
  /\ UNCHANGED <<lpc, lcur, loopIn>>

\* The lookup's future is resolved and the loop resumes the coroutine:
\* get_sandbox maps the status and returns; read_file offloads
\* container.get_archive(path).
after_get(t) ==
  /\ LoopFree
  /\ lpc[t] = "await_get" /\ ljob[t] = "done"
  /\ IF lcur[t].op = "get_sandbox"
     THEN /\ lpc' = [lpc EXCEPT ![t] = "idle"]
          /\ lcur' = [lcur EXCEPT ![t] = NoLoopCall]
          /\ ljob' = [ljob EXCEPT ![t] = "none"]
     ELSE /\ lpc' = [lpc EXCEPT ![t] = "await_archive"]
          /\ ljob' = [ljob EXCEPT ![t] = "queued"]
          /\ UNCHANGED lcur
  /\ UNCHANGED loopIn

\* get_archive returned its stream and the loop resumes read_file:
\* b"".join(tar_stream) reads the archive from the engine on the loop thread.
read_file_join(t) ==
  /\ LoopFree
  /\ lpc[t] = "await_archive" /\ ljob[t] = "done"
  /\ lpc' = [lpc EXCEPT ![t] = "join"]
  /\ ljob' = [ljob EXCEPT ![t] = "none"]
  /\ loopIn' = t
  /\ UNCHANGED lcur

\* The engine has sent the whole archive: the join ends, the member is taken
\* from the tar and read_file returns.
read_file_return(t) ==
  /\ lpc[t] = "join" /\ loopIn = t
  /\ lpc' = [lpc EXCEPT ![t] = "idle"]
  /\ lcur' = [lcur EXCEPT ![t] = NoLoopCall]
  /\ loopIn' = 0
  /\ UNCHANGED ljob

LoopIdle ==
  /\ lpc = [t \in Tasks |-> "idle"]
  /\ lcur = [t \in Tasks |-> NoLoopCall]
  /\ ljob = [t \in Tasks |-> "none"]
  /\ loopIn = 0

(***************************************************************************)
(* Part 9: the CLI agent's chat loop (kortix-cli/core/agent.py, Agent.chat) *)
(***************************************************************************)
VARIABLES
  cpc,        \* where chat is: idle, loop (at the while test), after (past the loop), done
  stream,     \* the stream argument of the call
  iteration,  \* the loop counter
  llmCalls,   \* _call_llm_with_tools calls made for this user input
  ended,      \* how the loop was left: none, reply, error, exhausted
  yielded     \* what the generator has yielded for this user input, as kinds of piece

agentVars == <<cpc, stream, iteration, llmCalls, ended, yielded>>

\* max_iterations = 5
max_iterations == 5

\* The most tool calls one LLM response carries here.
MaxTools == 2

\* What one LLM call can bring: a final reply, tool calls (with or without
\* content beside them), or an exception, from the call or from a tool.
Responses ==
  {[kind |-> "reply", content |-> TRUE, tools |-> 0], [kind |-> "error", content |-> FALSE, tools |-> 0]}
    \cup [kind : {"tool_calls"}, content : BOOLEAN, tools : 1..MaxTools]

\* The pieces yielded while the tool calls of one response are handled: the
\* content beside them, then per tool its notice and its result (stream only).
RECURSIVE ToolPieces(_)
ToolPieces(n) == IF n = 0 THEN <<>> ELSE <<"tool_msg", "result_msg">> \o ToolPieces(n - 1)

ToolCallPieces(r, st) ==
  IF st THEN (IF r.content THEN <<"content">> ELSE <<>>) \o ToolPieces(r.tools) ELSE <<>>

\* chat(user_input, stream): up to the while loop.
chat(st) ==
  /\ cpc \in {"idle", "done"}
  /\ cpc' = "loop"
  /\ stream' = st
  /\ iteration' = 0
  /\ llmCalls' = 0
  /\ ended' = "none"
  /\ yielded' = <<>>

\* while iteration < max_iterations
WhileHolds == iteration < max_iterations

\* One pass of the loop body, or the exit when the test fails.
chat_iteration ==
  /\ cpc = "loop"
  /\ IF ~WhileHolds
     THEN /\ cpc' = "after"
          /\ ended' = "exhausted"
          /\ UNCHANGED <<iteration, llmCalls, yielded>>
     ELSE /\ iteration' = iteration + 1
          /\ llmCalls' = llmCalls + 1
          /\ \E r \in Responses :
               IF r.kind = "reply"
               THEN /\ yielded' = Append(yielded, "content")
                    /\ cpc' = "after" /\ ended' = "reply"
               ELSE IF r.kind = "error"
               THEN /\ yielded' = Append(yielded, "error_msg")
                    /\ cpc' = "after" /\ ended' = "error"
               ELSE /\ yielded' = yielded \o ToolCallPieces(r, stream)
                    /\ UNCHANGED <<cpc, ended>>
  /\ UNCHANGED stream

\* if iteration >= max_iterations: yield warning
chat_after_loop ==
  /\ cpc = "after"
  /\ yielded' = IF iteration >= max_iterations THEN Append(yielded, "warning") ELSE yielded
  /\ cpc' = "done"
  /\ UNCHANGED <<stream, iteration, llmCalls, ended>>

AgentIdle ==
  /\ cpc = "idle"
  /\ stream = FALSE
  /\ iteration = 0
  /\ llmCalls = 0
  /\ ended = "none"
  /\ yielded = <<>>

(***************************************************************************)
(* Part 10: the CLI's one-shot sandbox (kortix-cli/core/sandbox.py,        *)
(* DockerSandbox.execute_code)                                             *)
(***************************************************************************)
VARIABLES
  xpc,       \* where execute_code is: idle, wait, logs, cleanup
  xcid,      \* the container of the call in progress (0: none)
  xres,      \* the call's result so far, and when idle the last call's result
  alive,     \* the containers made by execute_code calls that the engine still has
  runs       \* containers.run calls that created a container so far

cliVars == <<xpc, xcid, xres, alive, runs>>

\* The calls followed: each creates one more container id.
MaxRuns == 3

Languages == {"python", "bash", "cobol"}

\* SandboxResult; attempted: container.remove(force=True) was called in the call.
SandboxResult(success, exit_code, attempted) ==
  [success |-> success, exit_code |-> exit_code, attempted |-> attempted]

NoSandboxResult == SandboxResult(FALSE, 0, FALSE)

\* What client.containers.run(detach=True) can do: fail before the engine
\* creates the container, create it and fail to start it (the command is not in
\* the image), or hand back the started container.
RunOutcomes == {"not_created", "created_not_started", "started"}

\* What container.wait(timeout=timeout) can do: the program's exit, or a timeout.
WaitOutcomes == {"exit_0", "exit_1", "timeout"}

\* execute_code up to the end of containers.run.
execute_code_run(language) ==
  /\ xpc = "idle"
  /\ IF language \notin {"python", "bash", "sh", "node", "javascript"}
     THEN /\ xres' = SandboxResult(FALSE, 1, FALSE)
          /\ UNCHANGED <<xpc, xcid, alive, runs>>
     ELSE \E o \in RunOutcomes :
            IF o = "not_created"
            THEN /\ xres' = SandboxResult(FALSE, -1, FALSE)
                 /\ UNCHANGED <<xpc, xcid, alive, runs>>
            ELSE /\ runs < MaxRuns
                 /\ runs' = runs + 1
                 /\ alive' = alive \cup {runs + 1}
                 /\ IF o = "created_not_started"
                    THEN /\ xres' = SandboxResult(FALSE, -1, FALSE)
                         /\ UNCHANGED <<xpc, xcid>>
                    ELSE /\ xpc' = "wait"
                         /\ xcid' = runs + 1
                         /\ xres' = NoSandboxResult

\* container.wait(timeout=timeout): a timeout raises and goes to the finally.
execute_code_wait ==
  /\ xpc = "wait"
  /\ \E o \in WaitOutcomes :
       IF o = "timeout"
       THEN /\ xpc' = "cleanup"
            /\ xres' = SandboxResult(FALSE, -1, FALSE)
       ELSE /\ xpc' = "logs"
            /\ xres' = SandboxResult(o = "exit_0", IF o = "exit_0" THEN 0 ELSE 1, FALSE)
  /\ UNCHANGED <<xcid, alive, runs>>

\* The two container.logs calls: an engine error raises and goes to the finally.
execute_code_logs ==
  /\ xpc = "logs"
  /\ \E ok \in BOOLEAN :
       xres' = IF ok THEN xres ELSE SandboxResult(FALSE, -1, FALSE)
  /\ xpc' = "cleanup"
  /\ UNCHANGED <<xcid, alive, runs>>

\* finally: container.remove(force=True), its failure logged and dropped; then
\* the return of the result, or of the failure result of the outer handler.
execute_code_finally ==
  /\ xpc = "cleanup"
  /\ \E removed \in BOOLEAN :
       alive' = IF removed THEN alive \ {xcid} ELSE alive
  /\ xres' = [xres EXCEPT !.attempted = TRUE]
  /\ xpc' = "idle"
  /\ xcid' = 0
  /\ UNCHANGED runs

CliIdle ==
  /\ xpc = "idle"
  /\ xcid = 0
  /\ xres = NoSandboxResult
  /\ alive = {}
  /\ runs = 0

(***************************************************************************)
(* The specifications                                                      *)
(***************************************************************************)
vars == <<factoryVars, adapterVars, execVars, fileVars, compatVars, metaVars, handleVars,
          loopVars, agentVars, cliVars>>

\* ---- the factory: get_sandbox_adapter called by several tasks ----
InitFactory ==
  /\ FactoryInit
  /\ client = TRUE /\ AdapterIdle /\ ExecIdle /\ FilesIdle /\ CompatIdle /\ MetaIdle /\ HandleIdle /\ LoopIdle /\ AgentIdle /\ CliIdle

NextFactory ==
  \/ \E t \in Tasks :
       get_sandbox_adapter(t) /\ UNCHANGED <<adapterVars, execVars, fileVars, compatVars, metaVars, handleVars, loopVars, agentVars, cliVars>>
  \/ EngineToggle /\ UNCHANGED <<adapterVars, execVars, fileVars, compatVars, metaVars, handleVars, loopVars, agentVars, cliVars>>

SpecFactory == InitFactory /\ [][NextFactory]_vars

\* ---- the lifecycle calls of several tasks on an initialized adapter ----
InitLife ==
  /\ FactoryIdle
  /\ client = TRUE /\ AdapterIdle /\ ExecIdle /\ FilesIdle /\ CompatIdle /\ MetaIdle /\ HandleIdle /\ LoopIdle /\ AgentIdle /\ CliIdle

RestOfLife == UNCHANGED <<factoryVars, execVars, fileVars, compatVars, metaVars, handleVars, loopVars, agentVars, cliVars>>

\* What create_sandbox leaves alone outside the adapter and the labels.
RestOfCreate == UNCHANGED <<factoryVars, execVars, fileVars, compatVars, handleVars, loopVars, agentVars, cliVars>>

\* The callers of the lifecycle operations: two of them show every overlap of
\* two calls on one container.
LifeTasks == {1, 2}

NextLife ==
  \/ \E t \in LifeTasks : create_sandbox_run(t, NoMetadata) /\ RestOfCreate
  \/ \E t \in LifeTasks : create_sandbox_return(t) /\ RestOfLife
  \/ \E t \in LifeTasks : \E sid \in SidArgs : get_sandbox(t, sid) /\ RestOfLife
  \/ \E t \in LifeTasks : \E sid \in SidArgs : start_sandbox_lookup(t, sid) /\ RestOfLife
  \/ \E t \in LifeTasks : start_sandbox_start(t) /\ RestOfLife
  \/ \E t \in LifeTasks : start_sandbox_get(t) /\ RestOfLife
  \/ \E t \in LifeTasks : \E sid \in SidArgs : stop_sandbox_lookup(t, sid) /\ RestOfLife
  \/ \E t \in LifeTasks : stop_sandbox_stop(t) /\ RestOfLife
  \/ \E t \in LifeTasks : stop_sandbox_get(t) /\ RestOfLife
  \/ \E t \in LifeTasks : \E sid \in SidArgs : delete_sandbox_lookup(t, sid) /\ RestOfLife
  \/ \E t \in LifeTasks : delete_sandbox_stop(t) /\ RestOfLife
  \/ \E t \in LifeTasks : delete_sandbox_remove(t) /\ RestOfLife
  \/ \E t \in LifeTasks : \E sid \in SidArgs : health_check(t, sid) /\ RestOfLife

SpecLife == InitLife /\ [][NextLife]_vars

\* ---- the lifecycle calls on a container whose status the engine changes ----
InitEngine ==
  /\ FactoryIdle
  /\ client = TRUE /\ OneSandbox /\ ExecIdle /\ FilesIdle /\ CompatIdle /\ MetaIdle /\ HandleIdle /\ LoopIdle /\ AgentIdle /\ CliIdle

\* One caller: the engine's own changes stand for everything that overlaps it.
EngineTasks == {1}

NextEngine ==
  \/ \E s \in known : EngineDrift(s) /\ RestOfLife
  \/ \E t \in EngineTasks : \E sid \in SidArgs : get_sandbox(t, sid) /\ RestOfLife
  \/ \E t \in EngineTasks : \E sid \in SidArgs : start_sandbox_lookup(t, sid) /\ RestOfLife
  \/ \E t \in EngineTasks : start_sandbox_start(t) /\ RestOfLife
  \/ \E t \in EngineTasks : start_sandbox_get(t) /\ RestOfLife
  \/ \E t \in EngineTasks : \E sid \in SidArgs : stop_sandbox_lookup(t, sid) /\ RestOfLife
  \/ \E t \in EngineTasks : stop_sandbox_stop(t) /\ RestOfLife
  \/ \E t \in EngineTasks : stop_sandbox_get(t) /\ RestOfLife

SpecEngine == InitEngine /\ [][NextEngine]_vars

\* ---- get_resource_usage on an adapter that is configured or not ----
InitUsage ==
  /\ FactoryIdle
  /\ client \in BOOLEAN /\ OneSandbox /\ ExecIdle /\ FilesIdle /\ CompatIdle /\ MetaIdle /\ HandleIdle /\ LoopIdle /\ AgentIdle /\ CliIdle

UsageTasks == {1}

NextUsage ==
  \/ \E s \in known : EngineDrift(s) /\ RestOfLife
  \/ \E t \in UsageTasks : \E sid \in SidArgs : get_resource_usage(t, sid) /\ RestOfLife

SpecUsage == InitUsage /\ [][NextUsage]_vars

\* ---- execute_command with the worker pool and the clock ----
InitExec ==
  /\ FactoryIdle
  /\ client = TRUE /\ OneSandbox /\ ExecIdle /\ FilesIdle /\ CompatIdle /\ MetaIdle /\ HandleIdle /\ LoopIdle /\ AgentIdle /\ CliIdle

RestOfExec == UNCHANGED <<factoryVars, fileVars, compatVars, metaVars, handleVars, loopVars, agentVars, cliVars>>

NextExec ==
  \/ \E t \in ExecTasks : \E sid \in SidArgs : \E timeout \in TimeoutArgs :
       execute_command_begin(t, sid, timeout) /\ RestOfExec
  \/ WorkerStart /\ RestOfExec
  \/ \E t \in ExecTasks : EngineFinish(t) /\ RestOfExec
  \/ \E t \in ExecTasks : execute_command_after_get(t) /\ RestOfExec
  \/ \E t \in ExecTasks : execute_command_done(t) /\ RestOfExec
  \/ \E t \in ExecTasks : execute_command_timeout(t) /\ RestOfExec
  \/ OrphanFinish /\ RestOfExec
  \/ \E s \in Ids : EngineDrift(s) /\ UNCHANGED execVars /\ RestOfExec
  \/ \E s \in Ids : EngineRemoves(s) /\ UNCHANGED execVars /\ RestOfExec
  \/ Tick /\ RestOfExec

SpecExec == InitExec /\ [][NextExec]_vars

\* ---- the file operations on one started sandbox ----
InitFiles ==
  /\ FactoryIdle
  /\ client = TRUE /\ OneSandbox /\ ExecIdle /\ FilesIdle /\ CompatIdle /\ MetaIdle /\ HandleIdle /\ LoopIdle /\ AgentIdle /\ CliIdle

RestOfFiles == UNCHANGED <<factoryVars, execVars, compatVars, metaVars, handleVars, loopVars, agentVars, cliVars>>

NextFiles ==
  \/ \E t \in FileTasks : \E sid \in SidArgs : \E path \in PathArgs : \E content \in Contents :
       write_file(t, sid, path, content) /\ RestOfFiles
  \/ \E t \in FileTasks : \E sid \in SidArgs : \E path \in PathArgs :
       read_file(t, sid, path) /\ RestOfFiles
  \/ \E t \in FileTasks : \E sid \in SidArgs : \E path \in PathArgs :
       list_files(t, sid, path) /\ RestOfFiles
  \/ \E t \in FileTasks : \E sid \in SidArgs : \E path \in PathArgs :
       delete_file(t, sid, path) /\ RestOfFiles
  \/ Tick /\ UNCHANGED <<factoryVars, fileVars, compatVars, metaVars, handleVars, loopVars, agentVars, cliVars>>

SpecFiles == InitFiles /\ [][NextFiles]_vars

\* ---- metadata through the labels, over a restart of the managing process ----
InitMeta ==
  /\ FactoryIdle
  /\ client = TRUE /\ AdapterIdle /\ ExecIdle /\ FilesIdle /\ CompatIdle /\ MetaIdle /\ HandleIdle /\ LoopIdle /\ AgentIdle /\ CliIdle

MetaTasks == {1}

NextMeta ==
  \/ \E t \in MetaTasks : \E metadata \in MetadataArgs :
       create_sandbox_run(t, metadata) /\ RestOfCreate
  \/ \E t \in MetaTasks : create_sandbox_return(t) /\ RestOfLife
  \/ \E t \in MetaTasks : \E sid \in SidArgs : get_sandbox(t, sid) /\ RestOfLife
  \/ Restart /\ RestOfCreate
  \/ \E s \in Ids : EngineDrift(s) /\ RestOfLife

SpecMeta == InitMeta /\ [][NextMeta]_vars

\* ---- one handle used while the sandbox changes state under it ----
InitHandle ==
  /\ FactoryIdle
  /\ client = TRUE /\ AdapterIdle /\ ExecIdle /\ FilesIdle /\ CompatIdle /\ MetaIdle
  /\ HandleIdle /\ LoopIdle /\ AgentIdle /\ CliIdle

RestOfHandle == UNCHANGED <<factoryVars, adapterVars, execVars, fileVars, compatVars, metaVars, loopVars, agentVars, cliVars>>

NextHandle ==
  \/ get_state /\ RestOfHandle
  \/ state /\ RestOfHandle
  \/ process /\ RestOfHandle
  \/ \E session_id \in SessionIds : create_session(session_id) /\ RestOfHandle
  \/ WorldChange /\ UNCHANGED <<factoryVars, adapterVars, execVars, fileVars, metaVars, handleVars, loopVars, agentVars, cliVars>>

SpecHandle == InitHandle /\ [][NextHandle]_vars

\* ---- calls on two sandboxes that share the loop thread and the worker pool ----
\* Sandboxes 1 and BogusId stand for two different sandboxes; the engine answers
\* a lookup for either.
InitLoop ==
  /\ FactoryIdle
  /\ client = TRUE /\ AdapterIdle /\ ExecIdle /\ FilesIdle /\ CompatIdle /\ MetaIdle
  /\ HandleIdle /\ LoopIdle /\ AgentIdle /\ CliIdle

RestOfLoop ==
  UNCHANGED <<factoryVars, adapterVars, execVars, fileVars, compatVars, metaVars, handleVars, agentVars, cliVars>>

NextLoop ==
  \/ \E t \in Tasks : \E op \in LoopOps : \E sid \in Ids : offload_get(t, op, sid) /\ RestOfLoop
  \/ \E t \in Tasks : worker_takes(t) /\ RestOfLoop
  \/ \E t \in Tasks : engine_answers(t) /\ RestOfLoop
  \/ \E t \in Tasks : after_get(t) /\ RestOfLoop
  \/ \E t \in Tasks : read_file_join(t) /\ RestOfLoop
  \/ \E t \in Tasks : read_file_return(t) /\ RestOfLoop

SpecLoop == InitLoop /\ [][NextLoop]_vars

\* ---- the CLI agent answering user inputs ----
InitAgent ==
  /\ FactoryIdle
  /\ client = TRUE /\ AdapterIdle /\ ExecIdle /\ FilesIdle /\ CompatIdle /\ MetaIdle
  /\ HandleIdle /\ LoopIdle
  /\ AgentIdle /\ CliIdle

RestOfAgent ==
  UNCHANGED <<factoryVars, adapterVars, execVars, fileVars, compatVars, metaVars, handleVars,
              loopVars, cliVars>>

NextAgent ==
  \/ \E st \in BOOLEAN : chat(st) /\ RestOfAgent
  \/ chat_iteration /\ RestOfAgent
  \/ chat_after_loop /\ RestOfAgent

SpecAgent == InitAgent /\ [][NextAgent]_vars

\* ---- the CLI's execute_code, call after call ----
InitCli ==
  /\ FactoryIdle
  /\ client = TRUE /\ AdapterIdle /\ ExecIdle /\ FilesIdle /\ CompatIdle /\ MetaIdle
  /\ HandleIdle /\ LoopIdle /\ AgentIdle
  /\ CliIdle

RestOfCli ==
  UNCHANGED <<factoryVars, adapterVars, execVars, fileVars, compatVars, metaVars, handleVars,
              loopVars, agentVars>>

NextCli ==
  \/ \E language \in Languages : execute_code_run(language) /\ RestOfCli
  \/ execute_code_wait /\ RestOfCli
  \/ execute_code_logs /\ RestOfCli
  \/ execute_code_finally /\ RestOfCli

SpecCli == InitCli /\ [][NextCli]_vars

\* ---- every operation on an adapter whose constructor could not reach the engine ----
\* Container 1 is left from an earlier run of the process; its id is known.
InitUnconfigured ==
  /\ FactoryIdle
  /\ client = FALSE
  /\ status = [s \in Ids |-> IF s = 1 THEN "running" ELSE "absent"]
  /\ nextId = 2
  /\ known = {1}
  /\ pc = [t \in Tasks |-> "idle"]
  /\ cur = [t \in Tasks |-> NoCur]
  /\ ret = [t \in Tasks |-> NoRet]
  /\ engineCalled = FALSE
  /\ lastOp = [s \in Ids |-> "none"]
  /\ overlapped = [t \in Tasks |-> FALSE]
  /\ ExecIdle /\ FilesIdle /\ CompatIdle /\ MetaIdle /\ HandleIdle /\ LoopIdle /\ AgentIdle /\ CliIdle

RestOfAdapter == UNCHANGED <<factoryVars, execVars, fileVars, compatVars, metaVars, handleVars, loopVars, agentVars, cliVars>>

NextUnconfigured ==
  \/ \E t \in Tasks : create_sandbox_run(t, NoMetadata) /\ RestOfCreate
  \/ \E t \in Tasks : \E sid \in SidArgs : get_sandbox(t, sid) /\ RestOfAdapter
  \/ \E t \in Tasks : \E sid \in SidArgs : start_sandbox_lookup(t, sid) /\ RestOfAdapter
  \/ \E t \in Tasks : \E sid \in SidArgs : stop_sandbox_lookup(t, sid) /\ RestOfAdapter
  \/ \E t \in Tasks : \E sid \in SidArgs : delete_sandbox_lookup(t, sid) /\ RestOfAdapter
  \/ \E t \in Tasks : \E sid \in SidArgs : \E timeout \in TimeoutArgs :
       execute_command_begin(t, sid, timeout) /\ RestOfExec
  \/ \E t \in Tasks : \E sid \in SidArgs : \E path \in PathArgs : \E content \in Contents :
       write_file(t, sid, path, content) /\ RestOfFiles
  \/ \E t \in Tasks : \E sid \in SidArgs : \E path \in PathArgs :
       read_file(t, sid, path) /\ RestOfFiles
  \/ \E t \in Tasks : \E sid \in SidArgs : \E path \in PathArgs :
       list_files(t, sid, path) /\ RestOfFiles
  \/ \E t \in Tasks : \E sid \in SidArgs : \E path \in PathArgs :
       delete_file(t, sid, path) /\ RestOfFiles
  \/ \E t \in Tasks : \E sid \in SidArgs : health_check(t, sid) /\ RestOfAdapter
  \/ \E t \in Tasks : \E sid \in SidArgs : get_resource_usage(t, sid) /\ RestOfAdapter

SpecUnconfigured == InitUnconfigured /\ [][NextUnconfigured]_vars

\* ---- the shim's get_or_start_sandbox over a sandbox that changes under it ----
InitCompat ==
  /\ FactoryIdle
  /\ client = TRUE /\ AdapterIdle /\ ExecIdle /\ FilesIdle /\ MetaIdle /\ HandleIdle /\ LoopIdle /\ AgentIdle /\ CliIdle
  /\ astate \in AdapterStates
  /\ spc = "idle"
  /\ info = "None"
  /\ polls = 0 /\ slept = 0 /\ gets = 0 /\ starts = 0
  /\ everStarted = FALSE /\ adapterRaised = FALSE
  /\ sres = "none"
  /\ handle = NoHandle

RestOfCompat == UNCHANGED <<factoryVars, adapterVars, execVars, fileVars, metaVars, handleVars, loopVars, agentVars, cliVars>>

\* A step of a call in progress.
HelperStep == (gos_start \/ gos_sleep \/ gos_poll) /\ RestOfCompat

NextCompat ==
  \/ gos_begin /\ RestOfCompat
  \/ gos_start /\ RestOfCompat
  \/ gos_sleep /\ RestOfCompat
  \/ gos_poll /\ RestOfCompat
  \/ WorldChange /\ RestOfCompat

SpecCompat == InitCompat /\ [][NextCompat]_vars

\* Every adapter call answers and the loop keeps scheduling the helper: a step
\* of a call in progress that stays possible is taken.
SpecCompatFair == SpecCompat /\ WF_vars(HelperStep)

(***************************************************************************)
(* The properties                                                          *)
(***************************************************************************)

\* C1: on a started sandbox, read_file of a path returns exactly the bytes the
\* last write_file to that path was given, whatever the bytes (empty, not
\* UTF-8), when no write to the path came between.
C1_RoundTrip ==
  \A t \in FileTasks :
    (ret[t].op = "read_file" /\ ret[t].kind = "returned" /\ ret[t].aux.written.known)
      => ret[t].val = ret[t].aux.written.data

\* A read returned the bytes of an earlier write that are not valid UTF-8.
C1_Witness ==
  \E t \in FileTasks :
    /\ ret[t].op = "read_file" /\ ret[t].kind = "returned"
    /\ ret[t].aux.written.known
    /\ ret[t].aux.written.data = <<255>>
    /\ ret[t].val = <<255>>

\* C2: when the timer of execute_command is due and the offloaded exec_run has not
\* finished, the call returns (it does not raise) a result with exit_code -1,
\* success false, empty stdout and error "Timeout".
C2_TimeoutResult ==
  [][\A t \in ExecTasks :
       (pc[t] = "exec_await_exec" /\ job[t].state # "done" /\ now >= call[t].deadline
          /\ pc'[t] = "idle")
         => /\ ret'[t].op = "execute_command"
            /\ ret'[t].kind = "returned"
            /\ ret'[t].val.exit_code = -1
            /\ ret'[t].val.success = FALSE
            /\ ret'[t].val.stdout = ""
            /\ ret'[t].val.error = "Timeout"]_vars

\* A call came back through the timer while its exec_run still held a worker thread.
C2_Witness ==
  \E t \in ExecTasks :
    /\ ret[t].op = "execute_command" /\ ret[t].gone = "timeout"
    /\ ret[t].val.error = "Timeout"
    /\ orphans > 0

\* C3: an execute_command call in progress has never been in progress for longer
\* than its timeout (the default when none was given), whatever the engine and the
\* worker pool do.
C3_ReturnsWithinTimeout ==
  \A t \in ExecTasks :
    pc[t] \in {"exec_await_get", "exec_await_exec"} => now - call[t].start <= call[t].timeout

\* C4: a delete_sandbox call on an initialized adapter returns normally and the
\* container is absent afterwards, also when the container was already gone at
\* the lookup, or went between the lookup and the stop or the remove.
C4_DeleteIdempotent ==
  \A t \in Tasks :
    ret[t].op = "delete_sandbox"
      => ret[t].kind = "returned" /\ status[ret[t].sid] = "absent"

\* Two deletes of one container overlapped: one removed it, the other found it
\* gone after its own lookup had still seen it.
C4_Witness ==
  \E t, u \in Tasks :
    /\ t # u
    /\ ret[t].op = "delete_sandbox" /\ ret[t].gone \in {"stop", "remove"}
    /\ ret[u].op = "delete_sandbox" /\ ret[u].gone = "no"
    /\ ret[t].sid = ret[u].sid /\ ret[t].sid \in known

\* No start, stop or delete on container s is in progress.
Quiet(s) == \A u \in Tasks : ~(pc[u] # "idle" /\ cur[u].op \in Mutators /\ cur[u].sid = s)

\* C5: once create_sandbox or start_sandbox has returned for an id and no other
\* lifecycle call touched it since, get_sandbox of that id gives STARTED; once
\* stop_sandbox has returned, it gives STOPPED; and the id create_sandbox returned
\* is found by get, start and stop for as long as the container exists.
C5_Lifecycle ==
  /\ \A s \in known :
       Quiet(s) =>
         /\ lastOp[s] \in {"create_sandbox", "start_sandbox"}
              => /\ get_sandbox_result("get_sandbox", s).kind = "returned"
                 /\ get_sandbox_result("get_sandbox", s).val = "STARTED"
         /\ lastOp[s] = "stop_sandbox"
              => /\ get_sandbox_result("get_sandbox", s).kind = "returned"
                 /\ get_sandbox_result("get_sandbox", s).val = "STOPPED"
  /\ \A t \in Tasks :
       (ret[t].op \in {"get_sandbox", "start_sandbox", "stop_sandbox"}
          /\ ret[t].kind = "raised" /\ ret[t].sid \in known)
         => status[ret[t].sid] = "absent"

\* A created sandbox was stopped and started again, and it runs.
C5_Witness ==
  \E t, u \in Tasks :
    /\ ret[t].op = "stop_sandbox" /\ ret[t].kind = "returned"
    /\ ret[t].sid = 1 /\ ret[t].val = "STOPPED"
    /\ ret[u].op = "start_sandbox" /\ ret[u].kind = "returned"
    /\ ret[u].sid = 1 /\ ret[u].val = "STARTED"
    /\ lastOp[1] = "start_sandbox"
    /\ Quiet(1)
    /\ get_sandbox_result("get_sandbox", 1).kind = "returned"
    /\ get_sandbox_result("get_sandbox", 1).val = "STARTED"

\* The entries among the printed lines: not the total line, not "." and "..".
PrintedEntries(lines) ==
  SelectSeq(lines, LAMBDA l : l[1] # "total" /\ SubSeq(l, 7, Len(l)) \notin {<<".">>, <<"..">>})

\* One FileInfo per printed entry: the name is what follows the six columns.
ExpectedInfos(path, lines) ==
  [i \in 1..Len(PrintedEntries(lines)) |->
     LET l == PrintedEntries(lines)[i]
     IN  FileInfo(Append(path, SubSeq(l, 7, Len(l))), l[5], StartsWithD(l[1]), l[6])]

\* C6: list_files returns exactly one FileInfo for every entry the listing
\* command printed, with the entry's name, size, mtime and directory flag, and
\* none for ".", ".." and the total line.
C6_ListingMatchesEntries ==
  \A t \in FileTasks :
    (ret[t].op = "list_files" /\ ret[t].kind = "returned" /\ ret[t].aux.ok)
      => ret[t].val = ExpectedInfos(ret[t].aux.path, ret[t].aux.lines)

\* C7: an adapter that get_sandbox_adapter hands to a caller is configured.
C7_ReturnedIsConfigured ==
  \A t \in Tasks :
    fret[t].kind = "returned" => is_configured(adapters[fret[t].adapter])

\* C8: at most one SandboxFactory and at most one adapter are ever constructed,
\* and every caller that got an adapter got the one the factory retains.
C8_OneInstance ==
  /\ Len(factories) <= 1
  /\ Len(adapters) <= 1
  /\ \A t \in Tasks :
       fret[t].kind = "returned"
         => instance # 0 /\ fret[t].adapter = factories[instance].adapter

\* Two tasks called before any adapter existed and both hold the one adapter.
C8_Witness ==
  /\ \E t, u \in Tasks :
       t # u /\ fret[t].kind = "returned" /\ fret[u].kind = "returned"
  /\ Len(adapters) = 1
  /\ Len(factories) = 1

\* C9 as stated: on an adapter whose client is unset every operation raises the
\* not-initialized error, no engine call is made and the client stays unset.
C9_AllRaise ==
  /\ ~client
  /\ ~engineCalled
  /\ \A t \in Tasks :
       ret[t].op # "none" => ret[t].kind = "raised" /\ ret[t].error = NotInitError

\* C9: on an adapter whose client is unset every operation but health_check
\* raises the not-initialized error, health_check returns False, no engine call
\* is made and the client stays unset.
C9_FailFast ==
  /\ ~client
  /\ ~engineCalled
  /\ \A t \in Tasks :
       ret[t].op # "none" =>
         IF ret[t].op = "health_check"
         THEN ret[t].kind = "returned" /\ ret[t].val = FALSE
         ELSE ret[t].kind = "raised" /\ ret[t].error = NotInitError

\* One task's health_check and another's get_resource_usage have both come back.
C9_Witness ==
  \E t, u \in Tasks :
    /\ ret[t].op = "health_check" /\ ret[t].kind = "returned"
    /\ ret[u].op = "get_resource_usage" /\ ret[u].kind = "raised"

\* C10: a get_or_start_sandbox call in progress comes to its end; it polls at
\* most 30 times and sleeps at most 30 seconds; and when the polls run out
\* without one seeing STARTED, it returns a handle normally.
C10_Terminates ==
  /\ [](/\ polls <= PollAttempts
        /\ slept <= PollAttempts * PollInterval
        /\ (spc = "done" /\ ~adapterRaised)
             => (sres = "returned" /\ handle = CompatSandbox(1, info)))
  /\ (spc \notin {"idle", "done"}) ~> (spc = "done")

\* All 30 polls were made, none saw STARTED, and the call returned.
C10_Witness ==
  /\ spc = "done"
  /\ polls = PollAttempts
  /\ slept = PollAttempts * PollInterval
  /\ info # "STARTED"
  /\ sres = "returned"

\* C11: the handle get_or_start_sandbox returns exposes, as its state, the state
\* the helper's last get_sandbox reported.
C11_HandleCarriesState ==
  (spc = "done" /\ sres = "returned") => handle.state = info

\* C12: a stop_sandbox call that found its container called the engine's stop
\* exactly when the state it found was not STOPPED, and a start_sandbox call
\* that found its container called the engine's start exactly when the state it
\* found was not STARTED.
C12_TransitionWhenNeeded ==
  \A t \in Tasks :
    /\ (ret[t].op = "stop_sandbox" /\ ret[t].did.snap # "absent")
         => (ret[t].did.issued <=> MapStatus(ret[t].did.snap) # "STOPPED")
    /\ (ret[t].op = "start_sandbox" /\ ret[t].did.snap # "absent")
         => (ret[t].did.issued <=> MapStatus(ret[t].did.snap) # "STARTED")

\* C13: a map get_resource_usage returns is empty or its cpu_percent and
\* memory_percent lie between 0 and 100 (here in hundredths of a percent).
C13_PercentInRange ==
  \A t \in Tasks :
    (ret[t].op = "get_resource_usage" /\ ret[t].kind = "returned" /\ ~ret[t].val.empty)
      => /\ 0 <= ret[t].val.cpu_percent /\ ret[t].val.cpu_percent <= 10000
         /\ 0 <= ret[t].val.memory_percent /\ ret[t].val.memory_percent <= 10000

\* C14 as stated: get_resource_usage never raises.
C14_NeverRaises ==
  \A t \in Tasks : ret[t].op = "get_resource_usage" => ret[t].kind = "returned"

\* C14: on a configured adapter get_resource_usage never raises, and when the
\* sandbox is unknown, the engine call fails or the sample lacks a field it
\* returns the empty map; on an adapter whose client is unset it raises the
\* not-initialized error.
C14_EmptyOnFailure ==
  \A t \in Tasks :
    ret[t].op = "get_resource_usage" =>
      IF client
      THEN /\ ret[t].kind = "returned"
           /\ (~ret[t].aux.found \/ ~ret[t].aux.ok \/ ~ret[t].aux.complete)
                => ret[t].val = EmptyUsage
      ELSE ret[t].kind = "raised" /\ ret[t].error = NotInitError

\* A sample that lacks a field came back from the engine and the call returned
\* the empty map.
C14_Witness ==
  \E t \in Tasks :
    /\ client
    /\ ret[t].op = "get_resource_usage" /\ ret[t].kind = "returned"
    /\ ret[t].aux.found /\ ret[t].aux.ok /\ ~ret[t].aux.complete
    /\ ret[t].val = EmptyUsage

\* C15: an operation on a sandbox id the engine does not know tells its caller
\* so. Of the file operations: each call with the unknown id ends in a raised
\* error (none of them has a result with a failure mark of its own).
C15_UnknownIdSurfaces ==
  \A t \in Tasks :
    (/\ ret[t].kind # "none"
     /\ ret[t].sid = BogusId
     /\ ret[t].op \in {"write_file", "read_file", "list_files", "delete_file"})
      => ret[t].kind = "raised"

\* C16: provider detection follows the ordered precedence. A recognised
\* SANDBOX_PROVIDER decides alone; otherwise a recognised CLOUD_PROVIDER decides
\* (aliyun, tencent, local give docker; supabase gives e2b only with an E2B key,
\* else docker); otherwise an E2B key gives e2b, else a Daytona key gives
\* daytona; with no signal the provider is docker.
C16_Precedence ==
  \A i \in 1..Len(factories) :
    LET p == factories[i].provider
        S == Lower(envv.SANDBOX_PROVIDER)
        C == Lower(envv.CLOUD_PROVIDER)
        sel == S \in {"docker", "e2b", "daytona"}
        cloud == C \in {"aliyun", "tencent", "local", "supabase"}
    IN  /\ sel => p = S
        /\ (~sel /\ C \in {"aliyun", "tencent", "local"}) => p = "docker"
        /\ (~sel /\ C = "supabase" /\ envv.E2B_API_KEY # "") => p = "e2b"
        /\ (~sel /\ C = "supabase" /\ envv.E2B_API_KEY = "") => p = "docker"
        /\ (~sel /\ ~cloud /\ envv.E2B_API_KEY # "") => p = "e2b"
        /\ (~sel /\ ~cloud /\ envv.E2B_API_KEY = "" /\ envv.DAYTONA_API_KEY # "")
             => p = "daytona"
        /\ (~sel /\ ~cloud /\ envv.E2B_API_KEY = "" /\ envv.DAYTONA_API_KEY = "")
             => p = "docker"

\* A factory was constructed with every signal set and disagreeing: the explicit
\* selector says docker while the cloud target and the keys point elsewhere.
C16_Witness ==
  /\ instance # 0
  /\ envv.SANDBOX_PROVIDER = "Docker" /\ envv.CLOUD_PROVIDER = "supabase"
  /\ envv.E2B_API_KEY = "key" /\ envv.DAYTONA_API_KEY = "key"
  /\ factories[instance].provider = "docker"

\* The sentences of a message that tell which provider to use instead.
UseInsteadSentences ==
  {"Please migrate to Docker or E2B.",
   "Set SANDBOX_PROVIDER=docker to use Docker sandboxes."}

NamesAlternative(msg) == \E i \in 1..Len(msg) : msg[i] \in UseInsteadSentences

\* C17: with an unimplemented provider resolved (e2b or daytona), every
\* get_adapter call raises a not-implemented error whose message names the
\* provider to use instead, and no adapter is constructed, returned or cached.
C17_NotImplementedNamesAlternative ==
  \A t \in Tasks :
    (/\ fret[t].kind # "none"
     /\ instance # 0
     /\ factories[instance].provider \in {"e2b", "daytona"})
      => /\ fret[t].kind = "raised"
         /\ fret[t].error = "NotImplementedError"
         /\ NamesAlternative(fret[t].message)
         /\ fret[t].adapter = 0
         /\ factories[instance].adapter = 0
         /\ adapters = <<>>

\* C18: get_sandbox returns the metadata create_sandbox was given, each key and
\* value unchanged and nothing else in it, also when the managing process was
\* restarted in between.
C18_MetadataRoundTrip ==
  \A t \in Tasks :
    (ret[t].op = "get_sandbox" /\ ret[t].kind = "returned")
      => ret[t].aux.metadata = given[ret[t].sid]

\* C20: get_sandbox maps the engine's status to a state by a total function:
\* running gives STARTED; created and restarting give CREATING; paused and
\* exited give STOPPED; every other status gives ERROR.
C20_StatusMapping ==
  \A t \in Tasks :
    (ret[t].op = "get_sandbox" /\ ret[t].kind = "returned")
      => LET st == ret[t].aux.status
         IN  /\ st = "running" => ret[t].val = "STARTED"
             /\ st \in {"created", "restarting"} => ret[t].val = "CREATING"
             /\ st \in {"paused", "exited"} => ret[t].val = "STOPPED"
             /\ st \notin {"running", "created", "restarting", "paused", "exited"}
                  => ret[t].val = "ERROR"
             /\ ret[t].val \in SandboxStates

\* get_sandbox answered for a container the engine reported as dead, a status
\* outside the five named ones.
C20_Witness ==
  \E t \in Tasks :
    /\ ret[t].op = "get_sandbox" /\ ret[t].kind = "returned"
    /\ ret[t].aux.status = "dead" /\ ret[t].val = "ERROR"

\* C19: every ExecuteResult of execute_command has success = (exit_code = 0) and
\* a non-empty error only with success false and exit_code -1; and a result
\* made from a completed program never has exit_code -1 with an error set.
C19_ResultInvariants ==
  \A t \in Tasks :
    (ret[t].op = "execute_command" /\ ret[t].kind = "returned")
      => LET r == ret[t].val
             errorSet == r.error \notin {"None", ""}
         IN  /\ r.success <=> (r.exit_code = 0)
             /\ errorSet => (~r.success /\ r.exit_code = -1)
             /\ ret[t].aux = "completed" => ~(r.exit_code = -1 /\ errorSet)

\* C21: the state in every SandboxInfo the adapter returns comes from a status
\* the engine had during the call: a sandbox whose keep-alive process is not
\* running when the call returns or queries is never reported as STARTED.
C21_StateFromEngine ==
  \A t \in Tasks :
    (/\ ret[t].kind = "returned"
     /\ ret[t].op \in {"create_sandbox", "get_sandbox", "start_sandbox", "stop_sandbox"}
     /\ ret[t].val = "STARTED")
      => ret[t].aux.status = "running"

\* C22: get_state returns the state the adapter reports at the time of the
\* call; the kept state is unset before the first get_state.
C22_GetStateIsCurrent ==
  /\ (hret.op = "get_state" /\ hret.kind = "returned") => hret.val = hret.live
  /\ hret.op = "none" => h_state = "None"

\* C26: a session create_session returned for is recorded for the handle on
\* every later access of sandbox.process, and creating it calls no adapter.
C26_SessionsKept ==
  /\ \A s \in created : s \in sessions
  /\ hret.op = "create_session" => ~hret.called

\* C23: get_or_start_sandbox issues start_sandbox exactly when its first
\* get_sandbox reports STOPPED or ARCHIVED, and in every other state issues
\* neither a start nor a poll; once a poll has observed STARTED the call has
\* returned, with no get_sandbox and no sleep after that poll.
C23_StartExactlyWhenStopped ==
  /\ starts <= 1
  /\ polls > 0 => starts = 1
  /\ slept > 0 => starts = 1
  /\ (gets >= 1 /\ polls = 0 /\ info \in {"STOPPED", "ARCHIVED"})
       => (spc = "start" \/ starts = 1)
  /\ (gets >= 1 /\ polls = 0 /\ info \notin {"STOPPED", "ARCHIVED"})
       => (starts = 0 /\ slept = 0 /\ gets = 1 /\ spc = "done")
  /\ everStarted
       => (spc = "done" /\ sres = "returned" /\ info = "STARTED"
           /\ gets = polls + 1 /\ slept = polls * PollInterval)

\* A call started the sandbox and its third poll was the first to see STARTED.
C23_Witness ==
  /\ spc = "done" /\ sres = "returned"
  /\ starts = 1 /\ polls = 3 /\ gets = 4 /\ slept = 3
  /\ everStarted

\* C28: the adapter never reports ARCHIVING or ARCHIVED: the state of every
\* SandboxInfo it returns is CREATING, STARTED, STOPPED or ERROR, for every
\* status of the engine, so of the two states that make get_or_start_sandbox
\* start a sandbox only STOPPED can come from it.
C28_NeverArchived ==
  /\ \A t \in Tasks :
       (/\ ret[t].kind = "returned"
        /\ ret[t].op \in {"create_sandbox", "get_sandbox", "start_sandbox", "stop_sandbox"})
         => /\ ret[t].val \in {"CREATING", "STARTED", "STOPPED", "ERROR"}
            /\ ret[t].val \in {"STOPPED", "ARCHIVED"} => ret[t].val = "STOPPED"
  /\ \A s \in Ids :
       status[s] # "absent"
         => get_sandbox_result("get_sandbox", s).val \in {"CREATING", "STARTED", "STOPPED", "ERROR"}

\* get_sandbox reported STOPPED, the state that makes the helper start the
\* sandbox, for a container the engine has as exited.
C28_Witness ==
  \E t \in Tasks :
    /\ ret[t].op = "get_sandbox" /\ ret[t].kind = "returned"
    /\ ret[t].aux.status = "exited" /\ ret[t].val = "STOPPED"

\* C24: the step in which execute_command returns its timeout result issues
\* nothing to the engine: the status of every container is unchanged, and an
\* exec_run that was running keeps running, on a thread nobody waits for.
C24_TimeoutLeavesCommand ==
  [][\A t \in ExecTasks :
       (ret[t].kind = "none" /\ ret'[t].kind = "returned" /\ ret'[t].gone = "timeout")
         => /\ status' = status
            /\ engineCalled' = engineCalled
            /\ orphans' = orphans + (IF job[t].state = "running" THEN 1 ELSE 0)]_vars

\* The timeout result is back, the container still runs and so does the command.
C24_Witness ==
  \E t \in ExecTasks :
    /\ ret[t].op = "execute_command" /\ ret[t].kind = "returned"
    /\ ret[t].gone = "timeout" /\ ret[t].sid = 1
    /\ status[1] = "running" /\ orphans = 1 /\ pc[t] = "idle"

\* C27: on a configured adapter execute_command never raises; a failure while
\* locating the container, running the exec or decoding its output is returned
\* as a result with exit_code -1, success false and the error text in both
\* stderr and error.
C27_FailuresAreResults ==
  \A t \in Tasks :
    (ret[t].op = "execute_command" /\ ret[t].kind # "none")
      => /\ ret[t].kind = "returned"
         /\ IF ret[t].gone = "timeout" THEN TRUE
            ELSE LET r == ret[t].val
                     failure == /\ r.exit_code = -1 /\ ~r.success
                                /\ r.error \notin {"None", ""}
                                /\ r.stderr = r.error
                 IN  /\ ret[t].aux # "completed" => failure
                     /\ (ret[t].aux = "completed" /\ r.error # "None") => failure

\* The container was stopped while the call was on its way: exec_run was refused.
C27_Witness ==
  \E t \in Tasks :
    /\ ret[t].op = "execute_command" /\ ret[t].kind = "returned"
    /\ ret[t].sid = 1 /\ ret[t].gone = "no"
    /\ ret[t].val.error = "Conflict" /\ ret[t].val.stderr = "Conflict"
    /\ ret[t].val.exit_code = -1

\* C25: every call into the engine's synchronous client runs on the worker
\* pool and never on the loop thread, so an operation on one sandbox whose
\* engine call has been answered is never kept waiting by an engine call in
\* progress for a different sandbox.
C25_EngineCallsOffloaded ==
  /\ loopIn = 0
  /\ \A t \in Tasks :
       ~(/\ ljob[t] = "done"
         /\ loopIn \notin {0, t}
         /\ lcur[loopIn].sid # lcur[t].sid)

\* C29: chat makes at most 5 LLM calls per user input, and yields the warning
\* about the tool-call limit exactly when all 5 iterations ended in tool calls:
\* not when a final reply arrived, in whichever iteration, and not when an
\* error ended the loop.
C29_WarningOnlyWhenExhausted ==
  /\ llmCalls <= 5
  /\ cpc = "done"
       => LET warned == yielded # <<>> /\ yielded[Len(yielded)] = "warning"
          IN  warned <=> ended = "exhausted"

\* C30: every container an execute_code call creates is removed before the
\* call returns, on every outcome: between calls the engine has no container
\* made by an earlier call.
C30_NoContainerLeft ==
  xpc = "idle" => alive = {}

Spec == SpecLife

====
